---------------------------- MODULE Spec2Model ----------------------------
(***************************************************************************)
(* State-machine model of the Supporter Discord bot and its dashboard.     *)
(*                                                                         *)
(*   Part I   channel content restrictions                                 *)
(*            (Python_Files/no_text.py, Flask_Frontend/app.py)             *)
(*   Part II  levelling / XP                                               *)
(*            (Python_Files/level.py, Flask_Frontend/app.py)               *)
(*                                                                         *)
(* Every subsystem has its own specification over the shared variables;    *)
(* the variables of the other subsystems stay at their initial value.      *)
(***************************************************************************)
EXTENDS Integers, Sequences, FiniteSets, TLC

VARIABLES
    restrictions,   \* rows of public.channel_restrictions_v2 (one guild)
    bypass_roles,   \* role ids of public.bypass_roles (same guild)
    now,            \* the wall clock, in seconds
    db,             \* the levelling tables of the datastore (same guild)
    manager,        \* the LevelManager's dictionaries
    guild,          \* the guild as Discord holds it: member roles, voice states
    last            \* what the most recent handler / request did

levelVars == <<now, db, manager, guild>>
vars == <<restrictions, bypass_roles, now, db, manager, guild, last>>

None == "None"      \* Python None / SQL NULL

(***************************************************************************)
(*                    PART I : CHANNEL RESTRICTIONS                        *)
(***************************************************************************)

\* ---- NoTextManager.CONTENT_TYPES ---------------------------------------
PLAIN_TEXT        == 1
DISCORD_INVITES   == 2
IMAGE_LINKS       == 4
REGULAR_LINKS     == 8
IMAGE_ATTACHMENTS == 16
FILE_ATTACHMENTS  == 32
EMBEDS            == 64

CONTENT_TYPES ==
    {PLAIN_TEXT, DISCORD_INVITES, IMAGE_LINKS, REGULAR_LINKS,
     IMAGE_ATTACHMENTS, FILE_ATTACHMENTS, EMBEDS}

\* ---- Python's int operators &, |, ~ (arbitrary precision, two's
\* ---- complement for negative operands) ----------------------------------
RECURSIVE BitAndNat(_, _)
BitAndNat(a, b) ==
    IF a = 0 \/ b = 0 THEN 0
    ELSE (a % 2) * (b % 2) + 2 * BitAndNat(a \div 2, b \div 2)

BitNot(a) == (0 - a) - 1

BitOrNat(a, b) == a + b - BitAndNat(a, b)

BitAnd(a, b) ==
    CASE a >= 0 /\ b >= 0 -> BitAndNat(a, b)
      [] a <  0 /\ b >= 0 -> b - BitAndNat(b, BitNot(a))
      [] a >= 0 /\ b <  0 -> a - BitAndNat(a, BitNot(b))
      [] OTHER            -> BitNot(BitOrNat(BitNot(a), BitNot(b)))

BitOr(a, b) == BitNot(BitAnd(BitNot(a), BitNot(b)))

\* ---- messages -----------------------------------------------------------
\* message.content is modelled as its whitespace-separated tokens:
\*   word         text without any URL                  "hello"
\*   invite       an invite with scheme                 "https://discord.gg/abc"
\*   bare_invite  an invite without scheme              "discord.gg/abc"
\*   image_url    a URL ending in an image extension    "https://a.io/x.PNG"
\*   url          any other URL                         "https://a.io/page"
Tokens == {"word", "invite", "bare_invite", "image_url", "url"}

\* url_pattern "http[s]?://(...)+" consumes the whole token
MatchesUrlPattern(t) == t \in {"invite", "image_url", "url"}

\* discord_link_pattern "(?:https?://)?(?:www\.)?discord(?:app\.com/invite|\.gg)/..."
MatchesDiscordLink(t) == t \in {"invite", "bare_invite"}

\* image_url_pattern "https?://\S+\.(?:png|jpe?g|gif|webp)(?:\?\S*)?$" applied to
\* one extracted URL (re.match on the URL: "$" is the end of that URL)
MatchesImageUrl(t) == t = "image_url"

\* image_url_pattern.search(message.content): "\S+" cannot cross whitespace and
\* "$" is the end of the content, so only the last token can match
SearchImageUrl(content) ==
    /\ content # <<>>
    /\ MatchesImageUrl(content[Len(content)])

\* attachment.content_type: "image" stands for image/*, "file" for any other
\* value and for None
AttachmentKinds == {"image", "file"}

MaxTokens == 1

Contents == UNION {[1..n -> Tokens] : n \in 0..MaxTokens}

Messages ==
    [content : Contents, attachments : SUBSET AttachmentKinds, embeds : BOOLEAN]

\* NoTextManager.detect_content_types
detect_content_types(message) ==
    LET content == message.content
        toks    == {content[i] : i \in 1..Len(content)}
        text    == IF \E t \in toks : ~MatchesUrlPattern(t)
                   THEN PLAIN_TEXT ELSE 0
        invites == IF \E t \in toks : MatchesDiscordLink(t)
                   THEN DISCORD_INVITES ELSE 0
        images  == IF SearchImageUrl(content) THEN IMAGE_LINKS ELSE 0
        links   == IF \E t \in toks :
                        /\ MatchesUrlPattern(t)
                        /\ ~MatchesDiscordLink(t)
                        /\ ~MatchesImageUrl(t)
                   THEN REGULAR_LINKS ELSE 0
        imgatt  == IF "image" \in message.attachments
                   THEN IMAGE_ATTACHMENTS ELSE 0
        fileatt == IF "file" \in message.attachments
                   THEN FILE_ATTACHMENTS ELSE 0
        embeds  == IF message.embeds THEN EMBEDS ELSE 0
    IN  text + invites + images + links + imgatt + fileatt + embeds

\* NoTextManager.get_content_type_names: the names of the known flags in `flags`
get_content_type_names(flags) ==
    {f \in CONTENT_TYPES : BitAnd(flags, f) # 0}

\* ---- authors ------------------------------------------------------------
Roles == {"role1"}

Senders ==
    { [bot |-> TRUE,  guild |-> TRUE,  administrator |-> FALSE, roles |-> {}],
      [bot |-> FALSE, guild |-> FALSE, administrator |-> FALSE, roles |-> {}],
      [bot |-> FALSE, guild |-> TRUE,  administrator |-> TRUE,  roles |-> {}],
      [bot |-> FALSE, guild |-> TRUE,  administrator |-> FALSE, roles |-> {"role1"}],
      [bot |-> FALSE, guild |-> TRUE,  administrator |-> FALSE, roles |-> {}] }

\* is_bypass without the bypass-role lookup
is_bypass_AdminOnly(member, bypass) == member.administrator

\* NoTextManager.is_bypass
is_bypass(member, bypass) ==
    IF member.administrator THEN TRUE
    ELSE IF bypass = {} THEN FALSE
    ELSE member.roles \cap bypass # {}

\* ---- the restriction table ---------------------------------------------
Channels == {"c1"}

RedirectChannel == "redirect1"

\* a nullable integer column: <<>> is NULL, <<v>> holds v
Null == <<>>
Val(v) == <<v>>

\* `config[column] or 0`
OrZero(x) == IF x = Null THEN 0 ELSE x[1]

RowsOf(channel) == {r \in restrictions : r.channel = channel}

\* a fresh primary key (ids are opaque: the smallest unused one stands for it)
NewId == CHOOSE i \in 1..(Cardinality(restrictions) + 1) :
            \A r \in restrictions : r.id # i

NoEvent == [op |-> "none"]


\* ---- NoTextManager.on_message -------------------------------------------
\* What Discord answers to message.delete(), bot.get_channel(redirect) and
\* message.channel.send(notice)
DeleteResults  == {"ok", "Forbidden", "NotFound"}
ChannelResults == {"found", "missing"}
SendResults    == {"ok", "Forbidden"}

\* The answers a handler can meet, one deviation at a time (the calls are made
\* in this order and the first failure ends the handler)
DiscordAnswers ==
    { [del |-> "ok",        chan |-> "found",   send |-> "ok"],
      [del |-> "Forbidden", chan |-> "found",   send |-> "ok"],
      [del |-> "NotFound",  chan |-> "found",   send |-> "ok"],
      [del |-> "ok",        chan |-> "missing", send |-> "ok"],
      [del |-> "ok",        chan |-> "found",   send |-> "Forbidden"] }

\* Evaluate with the allow-list consulted before the block-list
Evaluate_AllowFirst(detected, allowed_flags, blocked_flags) ==
    IF detected = 0
    THEN [block |-> FALSE, reasons |-> 0, branch |-> "empty"]
    ELSE IF allowed_flags > 0 /\ BitAnd(detected, BitNot(allowed_flags)) # 0
    THEN [block |-> TRUE, reasons |-> BitAnd(detected, BitNot(allowed_flags)),
          branch |-> "not_allowed"]
    ELSE IF BitAnd(detected, blocked_flags) # 0
    THEN [block |-> TRUE, reasons |-> BitAnd(detected, blocked_flags),
          branch |-> "blocked"]
    ELSE [block |-> FALSE, reasons |-> 0, branch |-> "pass"]

\* Evaluate that wants some allowed content in every message of an
\* allow-listed channel, and has no shortcut for an empty message
Evaluate_RequireAllowed(detected, allowed_flags, blocked_flags) ==
    IF BitAnd(detected, blocked_flags) # 0
    THEN [block |-> TRUE, reasons |-> BitAnd(detected, blocked_flags),
          branch |-> "blocked"]
    ELSE IF allowed_flags > 0 /\ (\/ BitAnd(detected, allowed_flags) = 0
                                  \/ BitAnd(detected, BitNot(allowed_flags)) # 0)
    THEN [block |-> TRUE, reasons |-> BitAnd(detected, BitNot(allowed_flags)),
          branch |-> "not_allowed"]
    ELSE [block |-> FALSE, reasons |-> 0, branch |-> "pass"]

\* Evaluate that takes an allow-list of 0 for "nothing is allowed"
Evaluate_ZeroAllowsNothing(detected, allowed_flags, blocked_flags) ==
    IF detected = 0
    THEN [block |-> FALSE, reasons |-> 0, branch |-> "empty"]
    ELSE IF BitAnd(detected, blocked_flags) # 0
    THEN [block |-> TRUE, reasons |-> BitAnd(detected, blocked_flags),
          branch |-> "blocked"]
    ELSE IF allowed_flags >= 0 /\ BitAnd(detected, BitNot(allowed_flags)) # 0
    THEN [block |-> TRUE, reasons |-> BitAnd(detected, BitNot(allowed_flags)),
          branch |-> "not_allowed"]
    ELSE [block |-> FALSE, reasons |-> 0, branch |-> "pass"]

\* lines 164-216: the decision taken on the detected flags
Evaluate(detected, allowed_flags, blocked_flags) ==
    IF detected = 0
    THEN [block |-> FALSE, reasons |-> 0, branch |-> "empty"]
    ELSE IF BitAnd(detected, blocked_flags) # 0
    THEN [block |-> TRUE, reasons |-> BitAnd(detected, blocked_flags),
          branch |-> "blocked"]
    ELSE IF allowed_flags > 0 /\ BitAnd(detected, BitNot(allowed_flags)) # 0
    THEN [block |-> TRUE, reasons |-> BitAnd(detected, BitNot(allowed_flags)),
          branch |-> "not_allowed"]
    ELSE [block |-> FALSE, reasons |-> 0, branch |-> "pass"]

\* lines 176-191 / 200-216: delete, then the redirect notice
Enforce(decision, redirect_channel_id, del, chan, send) ==
    IF ~decision.block
    THEN [delete |-> "none", notice |-> "none"]
    ELSE IF del # "ok"
    THEN [delete |-> del, notice |-> "none"]
    ELSE IF redirect_channel_id = None \/ chan = "missing" \/ send # "ok"
    THEN [delete |-> "deleted", notice |-> "none"]
    ELSE [delete |-> "deleted", notice |-> "posted"]

\* the record of a handled message
Handled(channel, sender, message, looked_up, classified, detected, decision, effect) ==
    [op |-> "message", channel |-> channel, sender |-> sender,
     message |-> message, looked_up |-> looked_up,
     classified |-> classified, detected |-> detected,
     branch |-> decision.branch,
     reported |-> get_content_type_names(decision.reasons),
     delete |-> effect.delete, notice |-> effect.notice]

NoDecision == [block |-> FALSE, reasons |-> 0, branch |-> "return"]
NoEffect   == [delete |-> "none", notice |-> "none"]

on_message(channel, sender, message, del, chan, send) ==
    /\ UNCHANGED <<restrictions, bypass_roles, levelVars>>
    /\ IF sender.bot \/ ~sender.guild \/ is_bypass(sender, bypass_roles)
       THEN last' = Handled(channel, sender, message, FALSE, FALSE, 0,
                            NoDecision, NoEffect)
       ELSE IF RowsOf(channel) = {}
       THEN last' = Handled(channel, sender, message, TRUE, FALSE, 0,
                            NoDecision, NoEffect)
       ELSE \E config \in RowsOf(channel) :
              LET allowed_flags == OrZero(config.allowed)
                  blocked_flags == OrZero(config.blocked)
                  detected == detect_content_types(message)
                  decision == Evaluate(detected, allowed_flags, blocked_flags)
                  effect   == Enforce(decision, config.redirect, del, chan, send)
              IN  last' = Handled(channel, sender, message, TRUE, TRUE, detected,
                                  decision, effect)

OnMessage ==
    /\ last = NoEvent
    /\ \E channel \in Channels, sender \in Senders, message \in Messages,
          d \in DiscordAnswers :
            on_message(channel, sender, message, d.del, d.chan, d.send)

\* ---- slash commands n1 .. n11 ------------------------------------------
Command(name, result) == [op |-> "command", name |-> name, result |-> result]

\* n1-setup-no-text, n6-no-discord-link, n7-no-links, n10-setup-text-only:
\* the row carries a restriction_type only, the flag columns are not written
setup_legacy(name, channel, restriction_type, redirect) ==
    /\ last = NoEvent
    /\ UNCHANGED <<bypass_roles, levelVars>>
    /\ IF RowsOf(channel) # {}
       THEN /\ UNCHANGED restrictions
            /\ last' = Command(name, "exists")
       ELSE /\ restrictions' = restrictions \cup
                 {[id |-> NewId, channel |-> channel,
                   rtype |-> restriction_type,
                   allowed |-> Null, blocked |-> Null,
                   redirect |-> redirect]}
            /\ last' = Command(name, "created")

setup_no_text   == \E c \in Channels : setup_legacy("n1", c, "media_only", RedirectChannel)
no_discord_link == \E c \in Channels : setup_legacy("n6", c, "block_invites", None)
no_links        == \E c \in Channels : setup_legacy("n7", c, "block_all_links", None)
setup_text_only == \E c \in Channels : setup_legacy("n10", c, "text_only", RedirectChannel)

\* n2, n8, n9, n11: DELETE ... WHERE channel_id = $2 AND restriction_type = <type>
remove_legacy(name, channel, restriction_type) ==
    LET gone == {r \in RowsOf(channel) : r.rtype = restriction_type}
    IN  /\ last = NoEvent
        /\ UNCHANGED <<bypass_roles, levelVars>>
        /\ restrictions' = restrictions \ gone
        /\ last' = Command(name, IF gone = {} THEN "absent" ELSE "removed")

remove_no_text         == \E c \in Channels : remove_legacy("n2", c, "media_only")
remove_no_discord_link == \E c \in Channels : remove_legacy("n8", c, "block_invites")
remove_no_links        == \E c \in Channels : remove_legacy("n9", c, "block_all_links")
remove_text_only       == \E c \in Channels : remove_legacy("n11", c, "text_only")

\* n3-bypass-no-text: INSERT ... ON CONFLICT DO NOTHING
bypass_no_text ==
    \E role \in Roles :
        /\ last = NoEvent
        /\ bypass_roles' = bypass_roles \cup {role}
        /\ last' = Command("n3", "ok")
        /\ UNCHANGED <<restrictions, levelVars>>

\* n5-remove-bypass-role
remove_bypass_role ==
    \E role \in Roles :
        /\ last = NoEvent
        /\ bypass_roles' = bypass_roles \ {role}
        /\ last' = Command("n5", IF role \in bypass_roles THEN "removed" ELSE "absent")
        /\ UNCHANGED <<restrictions, levelVars>>

\* ---- dashboard: /api/server/<guild_id>/channel-restrictions-v2 ----------
\* JSON integers a request can carry in allowed_content_types and
\* blocked_content_types (Python ints, signed)
MaskInputs ==
    {-2, 0, PLAIN_TEXT, DISCORD_INVITES, IMAGE_ATTACHMENTS,
     PLAIN_TEXT + IMAGE_ATTACHMENTS}

\* restriction_type of a request: not sent, a valid type, an unknown type
RTypeInputs == {"absent", "bogus"}

RedirectInputs == {None, RedirectChannel}

\* init_db_pool() / the queries: fine, no pool, or a query raises
DbResults == {"ok", "no_pool", "error"}

\* What a request meets, one deviation at a time (the checks are made in this
\* order and the first failure answers the request)
NoFault == [access |-> TRUE, has_fields |-> TRUE, db |-> "ok"]

RequestFaults ==
    { [access |-> FALSE, has_fields |-> TRUE,  db |-> "ok"],
      [access |-> TRUE,  has_fields |-> FALSE, db |-> "ok"],
      [access |-> TRUE,  has_fields |-> TRUE,  db |-> "no_pool"],
      [access |-> TRUE,  has_fields |-> TRUE,  db |-> "error"] }

\* The requests sent to the create and update endpoints: every payload when
\* nothing else goes wrong, one payload for each deviation
RestrictionRequests ==
    [f : {NoFault}, rtype : RTypeInputs, allowed : MaskInputs,
     blocked : MaskInputs, redirect : RedirectInputs]
    \cup
    [f : RequestFaults, rtype : {"absent"}, allowed : {DISCORD_INVITES},
     blocked : {0}, redirect : {None}]

valid_types == {"block_invites", "block_all_links", "media_only", "text_only"}

\* "Validate content type flags don't conflict" (app.py 848-853, 973-978)
FlagsConflict(allowed_content_types, blocked_content_types) ==
    /\ allowed_content_types > 0
    /\ blocked_content_types > 0
    /\ BitAnd(allowed_content_types, blocked_content_types) # 0

Response(op, allowed, blocked, status) ==
    [op |-> op, allowed |-> allowed, blocked |-> blocked, status |-> status]

\* POST: create_channel_restriction_v2
create_channel_restriction_v2(access, has_fields, channel_id, rtype_in, allowed, blocked, redirect, dbres) ==
    LET restriction_type ==
            IF rtype_in = "absent" THEN "block_invites" ELSE rtype_in
        status ==
            IF ~access THEN 403
            ELSE IF ~has_fields THEN 400
            ELSE IF FlagsConflict(allowed, blocked) THEN 400
            ELSE IF restriction_type \notin valid_types THEN 400
            ELSE IF dbres = "no_pool" THEN 500
            ELSE IF dbres = "error" THEN 500
            ELSE IF RowsOf(channel_id) # {} THEN 409
            ELSE 201
    IN  /\ UNCHANGED <<bypass_roles, levelVars>>
        /\ last' = Response("create", allowed, blocked, status)
        /\ IF status = 201
           THEN restrictions' = restrictions \cup
                    {[id |-> NewId, channel |-> channel_id,
                      rtype |-> restriction_type,
                      allowed |-> Val(allowed), blocked |-> Val(blocked),
                      redirect |-> redirect]}
           ELSE UNCHANGED restrictions

CreateRestriction ==
    /\ last = NoEvent
    /\ \E channel_id \in Channels, q \in RestrictionRequests :
        create_channel_restriction_v2(q.f.access, q.f.has_fields, channel_id,
                                         q.rtype, q.allowed, q.blocked,
                                         q.redirect, q.f.db)

\* ids a request can name: those of the stored rows and one that is not stored
RequestIds == {r.id : r \in restrictions} \cup {NewId}

\* PUT: update_channel_restriction_v2
update_channel_restriction_v2(access, restriction_id, rtype_in, allowed, blocked, redirect, dbres) ==
    LET restriction_type == IF rtype_in = "absent" THEN None ELSE rtype_in
        found == {r \in restrictions : r.id = restriction_id}
        status ==
            IF ~access THEN 403
            ELSE IF FlagsConflict(allowed, blocked) THEN 400
            ELSE IF dbres = "no_pool" THEN 500
            ELSE IF dbres = "error" THEN 500
            ELSE IF found = {} THEN 404
            ELSE 200
    IN  /\ UNCHANGED <<bypass_roles, levelVars>>
        /\ last' = Response("update", allowed, blocked, status)
        /\ IF status = 200
           THEN restrictions' = (restrictions \ found) \cup
                    {[r EXCEPT !.rtype = restriction_type,
                               !.allowed = Val(allowed),
                               !.blocked = Val(blocked),
                               !.redirect = redirect] : r \in found}
           ELSE UNCHANGED restrictions

UpdateRestriction ==
    /\ last = NoEvent
    /\ \E restriction_id \in RequestIds, q \in RestrictionRequests :
        /\ q.f.has_fields
        /\ update_channel_restriction_v2(q.f.access, restriction_id, q.rtype,
                                         q.allowed, q.blocked, q.redirect, q.f.db)

\* DELETE: delete_channel_restriction_v2
delete_channel_restriction_v2(access, restriction_id, dbres) ==
    LET found == {r \in restrictions : r.id = restriction_id}
        status ==
            IF ~access THEN 403
            ELSE IF dbres = "no_pool" THEN 500
            ELSE IF dbres = "error" THEN 500
            ELSE IF found = {} THEN 404
            ELSE 200
    IN  /\ UNCHANGED <<bypass_roles, levelVars>>
        /\ last' = Response("delete", 0, 0, status)
        /\ IF status = 200
           THEN restrictions' = restrictions \ found
           ELSE UNCHANGED restrictions

DeleteRestriction ==
    /\ last = NoEvent
    /\ \E f \in RequestFaults \cup {NoFault}, restriction_id \in RequestIds :
        /\ f.has_fields
        /\ delete_channel_restriction_v2(f.access, restriction_id, f.db)

(***************************************************************************)
(*                        Part II: levelling / XP                          *)
(*                                                                         *)
(* One guild.  A handler runs from its event to its return in one step:    *)
(* the datastore, the manager's dictionaries and the guild are read and    *)
(* written in the order of the handler's statements.                       *)
(***************************************************************************)

SETTINGS_CACHE_DURATION == 300

Members == {"m1"}
RewardRoles == {"r1", "r2"}
\* A role of the guild that is no reward
OtherRole == "r0"
NotifyChannel == "notify1"

\* The row get_guild_settings inserts when the guild has none
DefaultSettings ==
    [xp_per_message |-> 5, xp_per_image |-> 10,
     xp_per_minute_in_voice |-> 15, voice_xp_limit |-> 1500]

\* A users row as create_user leaves it (the INSERT names no xp column)
NewUser == [xp |-> 0, level |-> 0, voice_xp_earned |-> 0]

\* A member is active in voice (in a channel, neither AFK nor self-deafened)
\* or not
VoiceStates == {"out", "active"}

\* The state a handler works on, threaded through the calls it makes
Cur == [db |-> db, manager |-> manager, guild |-> guild]

Commit(st) ==
    /\ db' = st.db
    /\ manager' = st.manager
    /\ guild' = st.guild

\* get_guild_settings that still serves an entry that is exactly
\* SETTINGS_CACHE_DURATION seconds old
get_guild_settings_Inclusive(st, t) ==
    LET cache == st.manager.settings_cache
        row == st.db.guild_settings
        settings_dict == IF row = Null THEN DefaultSettings ELSE row[1]
    IN  IF cache # Null /\ t - cache[1].timestamp <= SETTINGS_CACHE_DURATION
        THEN [settings |-> cache[1].settings, st |-> st]
        ELSE [settings |-> settings_dict,
              st |-> [st EXCEPT
                        !.db.guild_settings = Val(settings_dict),
                        !.manager.settings_cache =
                            Val([settings |-> settings_dict, timestamp |-> t])]]

\* LevelManager.get_guild_settings at time t
get_guild_settings(st, t) ==
    LET cache == st.manager.settings_cache
        row == st.db.guild_settings
        settings_dict == IF row = Null THEN DefaultSettings ELSE row[1]
    IN  IF cache # Null /\ t - cache[1].timestamp < SETTINGS_CACHE_DURATION
        THEN [settings |-> cache[1].settings, st |-> st]
        ELSE [settings |-> settings_dict,
              st |-> [st EXCEPT
                        !.db.guild_settings = Val(settings_dict),
                        !.manager.settings_cache =
                            Val([settings |-> settings_dict, timestamp |-> t])]]

\* LevelManager.create_user: the upsert keeps the xp of a row that exists
create_user(st, m) ==
    [user |-> NewUser,
     st |-> [st EXCEPT
               !.db.users[m] = IF @ = Null THEN Val(NewUser) ELSE @,
               !.manager.user_cache[m] = Val(NewUser)]]

\* LevelManager.get_user
get_user(st, m) ==
    IF st.manager.user_cache[m] # Null
    THEN [user |-> st.manager.user_cache[m][1], st |-> st]
    ELSE IF st.db.users[m] # Null
    THEN [user |-> st.db.users[m][1],
          st |-> [st EXCEPT !.manager.user_cache[m] = st.db.users[m]]]
    ELSE create_user(st, m)

\* update_user_xp that takes the level from the xp before the gain
update_user_xp_StaleLevel(st, m, xp_gain, voice_xp_gain) ==
    LET got == get_user(st, m)
        user == got.user
        updated == [xp |-> user.xp + xp_gain,
                    level |-> user.xp \div 1000,
                    voice_xp_earned |-> user.voice_xp_earned + voice_xp_gain]
    IN  [new_level |-> updated.level,
         st |-> [got.st EXCEPT
                   !.db.users[m] = IF @ = Null THEN @ ELSE Val(updated),
                   !.manager.user_cache[m] = Val(updated)]]

\* LevelManager.update_user_xp
update_user_xp(st, m, xp_gain, voice_xp_gain) ==
    LET got == get_user(st, m)
        user == got.user
        new_xp == user.xp + xp_gain
        new_level == new_xp \div 1000
        new_voice_xp == user.voice_xp_earned + voice_xp_gain
        updated == [xp |-> new_xp, level |-> new_level,
                    voice_xp_earned |-> new_voice_xp]
    IN  [new_level |-> new_level,
         st |-> [got.st EXCEPT
                   !.db.users[m] = IF @ = Null THEN @ ELSE Val(updated),
                   !.manager.user_cache[m] = Val(updated)]]

\* What Discord answers to add_roles, remove_roles and channel.send:
\* one failure at a time
LevelAnswers ==
    { [add |-> "ok",        remove |-> "ok",        send |-> "ok"],
      [add |-> "Forbidden", remove |-> "ok",        send |-> "ok"],
      [add |-> "ok",        remove |-> "Forbidden", send |-> "ok"],
      [add |-> "ok",        remove |-> "ok",        send |-> "HTTPException"] }

AllOk == [add |-> "ok", remove |-> "ok", send |-> "ok"]

\* Discord answers only a handler that calls it
Unasked(answer) == answer = AllOk

\* upgrade_user_roles that takes the lowest reward the level qualifies for
upgrade_user_roles_LowestQualifying(st, m, new_level, answer) ==
    LET roles == st.db.level_roles
        qualifying == {r \in roles : new_level >= r.level}
        target_role_id ==
            IF qualifying = {} THEN None
            ELSE (CHOOSE r \in qualifying :
                      \A q \in qualifying : q.level >= r.level).role_id
        current_user_role_ids == st.guild.roles[m]
        kept == current_user_role_ids \ {r.role_id : r \in roles}
    IN  [earned |-> target_role_id, forbidden |-> FALSE,
         st |-> [st EXCEPT !.guild.roles[m] =
                    kept \cup ({target_role_id} \cap st.guild.role_ids)]]

\* LevelManager.upgrade_user_roles.  guild.get_role drops the ids of roles
\* the guild no longer has; add_roles / remove_roles of no role at all asks
\* Discord nothing.
upgrade_user_roles(st, m, new_level, answer) ==
    LET roles == st.db.level_roles
        qualifying == {r \in roles : new_level >= r.level}
        target_role_id ==
            IF qualifying = {} THEN None
            ELSE (CHOOSE r \in qualifying :
                      \A q \in qualifying : q.level <= r.level).role_id
        all_level_role_ids == {r.role_id : r \in roles}
        current_user_role_ids == st.guild.roles[m]
        roles_to_add_ids ==
            IF target_role_id # None
            THEN {target_role_id} \ current_user_role_ids ELSE {}
        roles_to_remove_ids ==
            (current_user_role_ids \cap all_level_role_ids) \ {target_role_id}
        added == roles_to_add_ids \cap st.guild.role_ids
        removed == roles_to_remove_ids \cap st.guild.role_ids
        add_forbidden == added # {} /\ answer.add = "Forbidden"
        remove_forbidden ==
            /\ ~add_forbidden
            /\ removed # {}
            /\ answer.remove = "Forbidden"
        after_add ==
            IF add_forbidden THEN current_user_role_ids
            ELSE current_user_role_ids \cup added
        after_remove ==
            IF add_forbidden \/ remove_forbidden THEN after_add
            ELSE after_add \ removed
    IN  IF roles = {}
        THEN [earned |-> None, forbidden |-> FALSE, st |-> st]
        ELSE [earned |->
                IF /\ ~add_forbidden
                   /\ ~remove_forbidden
                   /\ (roles_to_add_ids # {} \/ roles_to_remove_ids # {})
                THEN target_role_id ELSE None,
              forbidden |-> add_forbidden \/ remove_forbidden,
              st |-> [st EXCEPT !.guild.roles[m] = after_remove]]

\* What a handler that ran no level-up handling reports
NoLevelUp(st) ==
    [st |-> st, handled |-> FALSE, announce |-> "none", earned |-> None,
     forbidden |-> FALSE]

\* _check_and_handle_level_up with the guard on the last notified level
\* turned around
check_and_handle_level_up_Inverted(st, m, new_level, answer) ==
    LET last_notified == OrZero(st.db.last_notified_level[m])
        up == upgrade_user_roles(st, m, new_level, answer)
    IN  IF new_level > last_notified
        THEN NoLevelUp(st)
        ELSE [st |-> [up.st EXCEPT !.db.last_notified_level[m] = Val(new_level)],
              handled |-> TRUE, announce |-> "none", earned |-> up.earned,
              forbidden |-> up.forbidden]

\* _check_and_handle_level_up that gives up when the roles could not be
\* changed
check_and_handle_level_up_AbortOnForbidden(st, m, new_level, answer) ==
    LET last_notified == OrZero(st.db.last_notified_level[m])
        up == upgrade_user_roles(st, m, new_level, answer)
        channel_id_str == up.st.db.level_notify_channel
    IN  IF new_level <= last_notified
        THEN NoLevelUp(st)
        ELSE IF up.forbidden
        THEN [st |-> up.st, handled |-> TRUE, announce |-> "none",
              earned |-> None, forbidden |-> TRUE]
        ELSE [st |-> [up.st EXCEPT !.db.last_notified_level[m] = Val(new_level)],
              handled |-> TRUE,
              announce |-> IF channel_id_str = Null THEN "none"
                           ELSE IF answer.send = "ok" THEN "posted"
                           ELSE "HTTPException",
              earned |-> up.earned, forbidden |-> FALSE]

\* LevelManager._check_and_handle_level_up
check_and_handle_level_up(st, m, new_level, answer) ==
    LET last_notified == OrZero(st.db.last_notified_level[m])
        up == upgrade_user_roles(st, m, new_level, answer)
        channel_id_str == up.st.db.level_notify_channel
    IN  IF new_level <= last_notified
        THEN NoLevelUp(st)
        ELSE [st |-> [up.st EXCEPT !.db.last_notified_level[m] = Val(new_level)],
              handled |-> TRUE,
              announce |-> IF channel_id_str = Null THEN "none"
                           ELSE IF answer.send = "ok" THEN "posted"
                           ELSE "HTTPException",
              earned |-> up.earned, forbidden |-> up.forbidden]

\* ---- what a levelling handler did ---------------------------------------
\* `before` is the user state the accrual read, `wanted` the gain before a
\* clamp, `limit` the voice limit the accrual worked with (0: none)
Accrual(kind, m, before, gain, wanted, limit, new_level, lvl) ==
    [op |-> "xp", kind |-> kind, member |-> m, awarded |-> TRUE, why |-> "gain",
     before |-> before, gain |-> gain, wanted |-> wanted, limit |-> limit,
     new_level |-> new_level, handled |-> lvl.handled,
     announce |-> lvl.announce, earned |-> lvl.earned,
     forbidden |-> lvl.forbidden]

NoAccrual(kind, m, why, before, limit) ==
    [op |-> "xp", kind |-> kind, member |-> m, awarded |-> FALSE, why |-> why,
     before |-> before, gain |-> 0, wanted |-> 0, limit |-> limit,
     new_level |-> before.level, handled |-> FALSE,
     announce |-> "none", earned |-> None,
     forbidden |-> FALSE]

AuthorKinds == {"member", "bot", "dm"}

\* LevelManager.on_message
LevelManager_on_message(author, m, attachments, answer) ==
    LET last_msg == manager.message_cooldowns[m]
        cooled == [Cur EXCEPT !.manager.message_cooldowns[m] = Val(now)]
        gs == get_guild_settings(cooled, now)
        amount == IF "image" \in attachments
                  THEN gs.settings.xp_per_image
                  ELSE gs.settings.xp_per_message
        got == get_user(gs.st, m)
        old_level == got.user.level
        upd == update_user_xp(got.st, m, amount, 0)
        lvl == IF upd.new_level > old_level
               THEN check_and_handle_level_up(upd.st, m, upd.new_level, answer)
               ELSE NoLevelUp(upd.st)
    IN  /\ UNCHANGED <<restrictions, bypass_roles, now>>
        /\ IF author # "member"
           THEN /\ last' = NoAccrual("message", m, author, NewUser, 0)
                /\ attachments = {} /\ Unasked(answer)
                /\ UNCHANGED <<db, manager, guild>>
           ELSE IF last_msg # Null /\ now - last_msg[1] < 60
           THEN /\ last' = NoAccrual("message", m, "cooldown", NewUser, 0)
                /\ attachments = {} /\ Unasked(answer)
                /\ UNCHANGED <<db, manager, guild>>
           ELSE /\ last' = Accrual("message", m, got.user, amount, amount, 0,
                                   upd.new_level, lvl)
                /\ lvl.handled \/ Unasked(answer)
                /\ Commit(lvl.st)

LevelOnMessage ==
    /\ last = NoEvent
    /\ \E author \in AuthorKinds, m \in Members,
          attachments \in {{}, {"image"}}, answer \in LevelAnswers :
            LevelManager_on_message(author, m, attachments, answer)

\* _award_voice_xp without the clamp to the remaining room
award_voice_xp_NoClamp(st, m, start_time, t, answer) ==
    LET gs == get_guild_settings(st, t)
        voice_xp_limit == gs.settings.voice_xp_limit
        got == get_user(gs.st, m)
        user == got.user
        xp_to_add == ((t - start_time) * gs.settings.xp_per_minute_in_voice) \div 60
        upd == update_user_xp(got.st, m, xp_to_add, xp_to_add)
        lvl == IF upd.new_level > user.level
               THEN check_and_handle_level_up(upd.st, m, upd.new_level, answer)
               ELSE NoLevelUp(upd.st)
    IN  IF user.voice_xp_earned >= voice_xp_limit
        THEN [st |-> got.st, ev |-> NoAccrual("voice", m, "limit", user, voice_xp_limit)]
        ELSE IF xp_to_add <= 0
        THEN [st |-> got.st, ev |-> NoAccrual("voice", m, "nothing", user, voice_xp_limit)]
        ELSE [st |-> lvl.st,
              ev |-> Accrual("voice", m, user, xp_to_add, xp_to_add, voice_xp_limit,
                             upd.new_level, lvl)]

\* LevelManager._award_voice_xp at time t.  int((elapsed_seconds / 60) *
\* xp_per_minute) is the floor of the product for the values used here.
award_voice_xp(st, m, start_time, t, answer) ==
    LET gs == get_guild_settings(st, t)
        voice_xp_limit == gs.settings.voice_xp_limit
        xp_per_minute == gs.settings.xp_per_minute_in_voice
        got == get_user(gs.st, m)
        user == got.user
        elapsed_seconds == t - start_time
        xp_to_add == (elapsed_seconds * xp_per_minute) \div 60
        remaining_room == voice_xp_limit - user.voice_xp_earned
        clamped == IF xp_to_add < remaining_room THEN xp_to_add ELSE remaining_room
        old_level == user.level
        upd == update_user_xp(got.st, m, clamped, clamped)
        lvl == IF upd.new_level > old_level
               THEN check_and_handle_level_up(upd.st, m, upd.new_level, answer)
               ELSE NoLevelUp(upd.st)
    IN  IF user.voice_xp_earned >= voice_xp_limit
        THEN [st |-> got.st, ev |-> NoAccrual("voice", m, "limit", user, voice_xp_limit)]
        ELSE IF xp_to_add <= 0
        THEN [st |-> got.st, ev |-> NoAccrual("voice", m, "nothing", user, voice_xp_limit)]
        ELSE IF clamped <= 0
        THEN [st |-> got.st, ev |-> NoAccrual("voice", m, "no_room", user, voice_xp_limit)]
        ELSE [st |-> lvl.st,
              ev |-> Accrual("voice", m, user, clamped, xp_to_add, voice_xp_limit,
                             upd.new_level, lvl)]

is_active(v) == v = "active"

\* on_voice_state_update that reads the session with get instead of pop
LevelManager_on_voice_state_update_KeepSession(author, m, after, answer) ==
    LET before == guild.voice[m]
        start_time == manager.voice_sessions[m]
        moved == [Cur EXCEPT !.guild.voice[m] = after]
        popped == moved
        award == award_voice_xp(popped, m, start_time[1], now, answer)
    IN  /\ UNCHANGED <<restrictions, bypass_roles, now>>
        /\ IF author # "member"
           THEN /\ last' = NoAccrual("voice", m, author, NewUser, 0)
                /\ Unasked(answer)
                /\ UNCHANGED <<db, manager, guild>>
           ELSE IF is_active(before) /\ ~is_active(after)
           THEN IF start_time # Null
                THEN /\ last' = award.ev
                     /\ award.ev.handled \/ Unasked(answer)
                     /\ Commit(award.st)
                ELSE /\ last' = NoAccrual("voice", m, "no_session", NewUser, 0)
                     /\ Unasked(answer)
                     /\ Commit(popped)
           ELSE IF ~is_active(before) /\ is_active(after)
           THEN /\ last' = NoAccrual("voice", m, "joined", NewUser, 0)
                /\ Unasked(answer)
                /\ Commit([moved EXCEPT !.manager.voice_sessions[m] = Val(now)])
           ELSE /\ last' = NoAccrual("voice", m, "same", NewUser, 0)
                /\ Unasked(answer)
                /\ Commit(moved)

\* LevelManager.on_voice_state_update: `before` is the state Discord held,
\* `after` the one it holds now
LevelManager_on_voice_state_update(author, m, after, answer) ==
    LET before == guild.voice[m]
        start_time == manager.voice_sessions[m]
        moved == [Cur EXCEPT !.guild.voice[m] = after]
        popped == [moved EXCEPT !.manager.voice_sessions[m] = Null]
        award == award_voice_xp(popped, m, start_time[1], now, answer)
    IN  /\ UNCHANGED <<restrictions, bypass_roles, now>>
        /\ IF author # "member"
           THEN /\ last' = NoAccrual("voice", m, author, NewUser, 0)
                /\ Unasked(answer)
                /\ UNCHANGED <<db, manager, guild>>
           ELSE IF is_active(before) /\ ~is_active(after)
           THEN IF start_time # Null
                THEN /\ last' = award.ev
                     /\ award.ev.handled \/ Unasked(answer)
                     /\ Commit(award.st)
                ELSE /\ last' = NoAccrual("voice", m, "no_session", NewUser, 0)
                     /\ Unasked(answer)
                     /\ Commit(popped)
           ELSE IF ~is_active(before) /\ is_active(after)
           THEN /\ last' = NoAccrual("voice", m, "joined", NewUser, 0)
                /\ Unasked(answer)
                /\ Commit([moved EXCEPT !.manager.voice_sessions[m] = Val(now)])
           ELSE /\ last' = NoAccrual("voice", m, "same", NewUser, 0)
                /\ Unasked(answer)
                /\ Commit(moved)

OnVoiceStateUpdate ==
    /\ last = NoEvent
    /\ \E author \in {"member", "bot"}, m \in Members,
          after \in VoiceStates, answer \in LevelAnswers :
            LevelManager_on_voice_state_update(author, m, after, answer)

\* ---- dashboard: POST /api/server/<guild_id>/settings --------------------
SettingsInputs ==
    { DefaultSettings,
      [DefaultSettings EXCEPT !.voice_xp_limit = 20],
      [DefaultSettings EXCEPT !.xp_per_message = -1] }

SettingsResponse(status) == [op |-> "settings", status |-> status]

update_server_settings(access, values, dbres) ==
    LET negative == \/ values.xp_per_message < 0
                    \/ values.xp_per_image < 0
                    \/ values.xp_per_minute_in_voice < 0
                    \/ values.voice_xp_limit < 0
        status == IF ~access THEN 403
                  ELSE IF negative THEN 400
                  ELSE IF dbres # "ok" THEN 500
                  ELSE 200
    IN  /\ last' = SettingsResponse(status)
        /\ db' = IF status = 200
                 THEN [db EXCEPT !.guild_settings = Val(values)] ELSE db
        /\ UNCHANGED <<restrictions, bypass_roles, now, manager, guild>>

UpdateServerSettings ==
    /\ last = NoEvent
    /\ \E f \in RequestFaults \cup {NoFault}, values \in SettingsInputs :
        /\ f.has_fields
        /\ (f # NoFault => values = DefaultSettings)
        /\ update_server_settings(f.access, values, f.db)

\* The settings an administrator saves, with the updated_at = NOW() of the
\* upsert: the defaults, or other amounts for a message and for an image
SavedSettings ==
    { DefaultSettings,
      [DefaultSettings EXCEPT !.xp_per_message = 7, !.xp_per_image = 12] }

SaveSettings ==
    /\ last = NoEvent
    /\ \E values \in SavedSettings :
        update_server_settings(TRUE, values @@ [updated_at |-> now], "ok")

\* ---- resets -------------------------------------------------------------
ZeroedRows(rows, zero) ==
    [m \in Members |-> IF rows[m] = Null THEN Null ELSE Val(zero)]

reward_role_ids(st) == {r.role_id : r \in st.db.level_roles}

\* LevelManager._perform_full_reset
perform_full_reset(st, answer) ==
    [st EXCEPT
       !.guild.roles = [m \in Members |->
                           IF answer.remove = "Forbidden" THEN @[m]
                           ELSE @[m] \ reward_role_ids(st)],
       !.db.users = ZeroedRows(@, NewUser),
       !.db.last_notified_level = ZeroedRows(@, 0),
       !.manager.user_cache = [m \in Members |-> Null]]

\* /l9-reset-xp
reset_xp ==
    /\ last = NoEvent
    /\ \E answer \in LevelAnswers :
        /\ answer.add = "ok" /\ answer.send = "ok"
        /\ Commit(perform_full_reset(Cur, answer))
        /\ last' = [op |-> "reset", by |-> "l9", status |-> 200]
    /\ UNCHANGED <<restrictions, bypass_roles, now>>

\* dashboard: POST /api/server/<guild_id>/reset-xp.  The roles are taken off
\* over Discord's REST API before the rows are zeroed; the bot's
\* dictionaries are out of reach.
manual_reset_xp(access, dbres, strip) ==
    LET stripped == [Cur EXCEPT !.guild.roles =
                        [m \in Members |->
                            IF strip = "ok" THEN @[m] \ reward_role_ids(Cur)
                            ELSE @[m]]]
        zeroed == [stripped EXCEPT
                     !.db.users = ZeroedRows(@, NewUser),
                     !.db.last_notified_level = ZeroedRows(@, 0)]
    IN  /\ UNCHANGED <<restrictions, bypass_roles, now>>
        /\ IF ~access
           THEN /\ last' = [op |-> "reset", by |-> "dashboard", status |-> 403]
                /\ UNCHANGED <<db, manager, guild>>
           ELSE IF dbres = "no_pool"
           THEN /\ last' = [op |-> "reset", by |-> "dashboard", status |-> 500]
                /\ UNCHANGED <<db, manager, guild>>
           ELSE IF dbres = "error"
           THEN /\ last' = [op |-> "reset", by |-> "dashboard", status |-> 500]
                /\ Commit(stripped)
           ELSE /\ last' = [op |-> "reset", by |-> "dashboard", status |-> 200]
                /\ Commit(zeroed)

ManualResetXp ==
    /\ last = NoEvent
    /\ \E f \in RequestFaults \cup {NoFault}, strip \in {"ok", "failed"} :
        /\ f.has_fields
        /\ (f # NoFault => strip = "ok")
        /\ manual_reset_xp(f.access, f.db, strip)

\* ---- reward roles -------------------------------------------------------
\* The levels a reward is configured for
MaxRewardLevel == 2
RewardLevels == 1 .. MaxRewardLevel

\* /l3-setup-level-reward: one reward per level, the later one wins
setup_level_reward(level, role) ==
    /\ db' = [db EXCEPT !.level_roles =
                 {r \in @ : r.level # level}
                     \cup {[level |-> level, role_id |-> role]}]
    /\ last' = [op |-> "reward", level |-> level, role_id |-> role]
    /\ UNCHANGED <<restrictions, bypass_roles, now, manager, guild>>

SetupLevelReward ==
    /\ last = NoEvent
    /\ \E level \in RewardLevels, role \in guild.role_ids \cap RewardRoles :
            setup_level_reward(level, role)

\* A role of the guild is deleted in Discord: its members lose it, the
\* level_roles row that names it stays ("(Deleted)" in /l4-level-reward-show)
RoleDeleted ==
    /\ last = NoEvent
    /\ \E role \in guild.role_ids \cap RewardRoles :
        /\ guild' = [guild EXCEPT
                       !.role_ids = @ \ {role},
                       !.roles = [m \in Members |-> @[m] \ {role}]]
        /\ last' = [op |-> "role_deleted", role_id |-> role]
    /\ UNCHANGED <<restrictions, bypass_roles, now, db, manager>>

\* The loop of /l10-upgrade-all-roles over the users rows still to do
RECURSIVE sync_roles(_, _, _)
sync_roles(acc, todo, answer) ==
    IF todo = {} THEN acc
    ELSE LET m == CHOOSE x \in todo : TRUE
             up == upgrade_user_roles(acc.st, m, acc.st.db.users[m][1].level,
                                      answer)
         IN  sync_roles([st |-> up.st,
                         changed |-> acc.changed \cup
                                        (IF up.earned # None THEN {m} ELSE {}),
                         forbidden |-> acc.forbidden \cup
                                        (IF up.forbidden THEN {m} ELSE {})],
                        todo \ {m}, answer)

\* /l10-upgrade-all-roles
upgrade_all_roles(answer) ==
    LET users_data == {m \in Members : db.users[m] # Null}
        done == sync_roles([st |-> Cur, changed |-> {}, forbidden |-> {}],
                           users_data, answer)
    IN  /\ UNCHANGED <<restrictions, bypass_roles, now>>
        /\ Commit(done.st)
        /\ last' = [op |-> "sync", synced |-> users_data,
                    before |-> guild.roles, changed |-> done.changed,
                    forbidden |-> done.forbidden]

UpgradeAllRoles ==
    /\ last = NoEvent
    /\ \E answer \in LevelAnswers :
        /\ answer.send = "ok"
        /\ upgrade_all_roles(answer)

\* ---- time ---------------------------------------------------------------
\* The clock moves between events by one of Delays, MaxTicks times the
\* shorter one at most
MaxTicks == 2
Delays == {150, 300}
Horizon == MaxTicks * 150

Tick ==
    /\ last = NoEvent
    /\ \E d \in Delays :
        /\ now + d <= Horizon
        /\ now' = now + d
    /\ UNCHANGED <<restrictions, bypass_roles, db, manager, guild, last>>

\* The handler or request has returned: `last` only records the most recent
\* one, and the next event is taken when it has been looked at.
Return ==
    /\ last # NoEvent
    /\ last' = NoEvent
    /\ UNCHANGED <<restrictions, bypass_roles, levelVars>>


(***************************************************************************)
(*                   Part III: YouTube notifications                       *)
(*                                                                         *)
(* Two guilds follow one YouTube channel.  The datastore holds one config  *)
(* row per guild and the log rows keyed by (guild, channel, video); the    *)
(* messages Discord accepted are counted per guild and video.              *)
(***************************************************************************)

YtGuilds == {"g1", "g2"}
ConfigOrder == <<"g1", "g2">>

\* The feed of the channel: the second video is a second older than the
\* first
Feed ==
    << [video_id |-> "v1", published_at |-> -1800],
       [video_id |-> "v2", published_at |-> -1801] >>

Videos == {Feed[i].video_id : i \in 1 .. Len(Feed)}

\* check_for_videos runs every 15 minutes
POLL_SECONDS == 900

\* What can go wrong in one cycle, one thing at a time: the feed of a guild's
\* config cannot be fetched ("rss"), Discord refuses a message ("send"), or
\* the datastore raises when the log is read ("check") or written ("insert")
NoYtFault == [guild_id |-> None, video_id |-> None, at |-> "none"]

YtFaults ==
    {NoYtFault}
        \cup {[guild_id |-> g, video_id |-> None, at |-> "rss"] : g \in YtGuilds}
        \cup {[guild_id |-> g, video_id |-> v, at |-> step] :
                 g \in YtGuilds, v \in Videos,
                 step \in {"check", "send", "insert"}}

Hits(fault, g, v, step) ==
    fault.guild_id = g /\ fault.video_id = v /\ fault.at = step

\* YouTubeManager.send_notification: a failure of channel.send is logged and
\* swallowed
send_notification(st, g, v, fault) ==
    IF Hits(fault, g, v, "send") THEN st
    ELSE [st EXCEPT !.guild.sent[g][v] = @ + 1]

\* What one cycle did with one feed entry
Seen(g, v, age, logged, outcome, delivered) ==
    [guild_id |-> g, video_id |-> v, age |-> age, logged |-> logged,
     outcome |-> outcome, delivered |-> delivered]

\* The body of `for entry in feed.entries` with the threshold off by one
process_entry_AtLeast(st, g, entry, t, fault) ==
    LET v == entry.video_id
        age_seconds == t - entry.published_at
        log_exists == st.db.youtube_notification_logs[g][v] # Null
        sent == send_notification(st, g, v, fault)
    IN  IF log_exists
        THEN [st |-> st, item |-> Seen(g, v, age_seconds, TRUE, "skipped", FALSE)]
        ELSE IF age_seconds >= 3600
        THEN [st |-> [st EXCEPT !.db.youtube_notification_logs[g][v] = Val("none")],
              item |-> Seen(g, v, age_seconds, FALSE, "none", FALSE)]
        ELSE [st |-> [sent EXCEPT
                        !.db.youtube_notification_logs[g][v] = Val("notified")],
              item |-> Seen(g, v, age_seconds, FALSE, "notified", sent # st)]

\* The body of `for entry in feed.entries` writing the notified row only
\* for a delivered message
process_entry_DeliveredOnly(st, g, entry, t, fault) ==
    LET v == entry.video_id
        age_seconds == t - entry.published_at
        log_exists == st.db.youtube_notification_logs[g][v] # Null
        sent == send_notification(st, g, v, fault)
    IN  IF Hits(fault, g, v, "check")
        THEN [st |-> st, item |-> Seen(g, v, age_seconds, FALSE, "raised", FALSE)]
        ELSE IF log_exists
        THEN [st |-> st, item |-> Seen(g, v, age_seconds, TRUE, "skipped", FALSE)]
        ELSE IF age_seconds > 3600
        THEN IF Hits(fault, g, v, "insert")
             THEN [st |-> st,
                   item |-> Seen(g, v, age_seconds, FALSE, "raised", FALSE)]
             ELSE [st |-> [st EXCEPT
                             !.db.youtube_notification_logs[g][v] = Val("none")],
                   item |-> Seen(g, v, age_seconds, FALSE, "none", FALSE)]
        ELSE IF Hits(fault, g, v, "insert")
             THEN [st |-> sent,
                   item |-> Seen(g, v, age_seconds, FALSE, "raised", sent # st)]
             ELSE IF sent = st
             THEN [st |-> st,
                   item |-> Seen(g, v, age_seconds, FALSE, "notified", FALSE)]
             ELSE [st |-> [sent EXCEPT
                             !.db.youtube_notification_logs[g][v] = Val("notified")],
                   item |-> Seen(g, v, age_seconds, FALSE, "notified", TRUE)]

\* The body of `for entry in feed.entries` in check_for_videos at time t
process_entry(st, g, entry, t, fault) ==
    LET v == entry.video_id
        age_seconds == t - entry.published_at
        log_exists == st.db.youtube_notification_logs[g][v] # Null
        sent == send_notification(st, g, v, fault)
    IN  IF Hits(fault, g, v, "check")
        THEN [st |-> st, item |-> Seen(g, v, age_seconds, FALSE, "raised", FALSE)]
        ELSE IF log_exists
        THEN [st |-> st, item |-> Seen(g, v, age_seconds, TRUE, "skipped", FALSE)]
        ELSE IF age_seconds > 3600
        THEN IF Hits(fault, g, v, "insert")
             THEN [st |-> st,
                   item |-> Seen(g, v, age_seconds, FALSE, "raised", FALSE)]
             ELSE [st |-> [st EXCEPT
                             !.db.youtube_notification_logs[g][v] = Val("none")],
                   item |-> Seen(g, v, age_seconds, FALSE, "none", FALSE)]
        ELSE IF Hits(fault, g, v, "insert")
             THEN [st |-> sent,
                   item |-> Seen(g, v, age_seconds, FALSE, "raised", sent # st)]
             ELSE [st |-> [sent EXCEPT
                             !.db.youtube_notification_logs[g][v] = Val("notified")],
                   item |-> Seen(g, v, age_seconds, FALSE, "notified", sent # st)]

\* `for entry in feed.entries` inside the try of one config: an exception
\* ends the entries of this config
RECURSIVE process_entries(_, _, _, _, _)
process_entries(acc, g, entries, t, fault) ==
    IF entries = <<>> THEN acc
    ELSE LET done == process_entry(acc.st, g, Head(entries), t, fault)
             next == [st |-> done.st, seen |-> acc.seen \cup {done.item}]
         IN  IF done.item.outcome = "raised" THEN next
             ELSE process_entries(next, g, Tail(entries), t, fault)

\* `for config in configs` over the enabled configs
RECURSIVE process_configs(_, _, _, _)
process_configs(acc, configs, t, fault) ==
    IF configs = <<>> THEN acc
    ELSE LET g == Head(configs)
             row == acc.st.db.youtube_notification_config[g]
             feed == IF Hits(fault, g, None, "rss") THEN <<>> ELSE Feed
         IN  process_configs(
                 IF row # Null /\ row[1].is_enabled
                 THEN process_entries(acc, g, feed, t, fault) ELSE acc,
                 Tail(configs), t, fault)

\* The cycles the loop runs
MaxPolls == 3

\* YouTubeManager.check_for_videos, a cycle of @tasks.loop(minutes=15): `now`
\* is the time of the cycle, the next one is a quarter of an hour later
check_for_videos(fault) ==
    LET done == process_configs([st |-> Cur, seen |-> {}], ConfigOrder, now, fault)
    IN  /\ Commit(done.st)
        /\ last' = [op |-> "poll", seen |-> done.seen]
        /\ now' = now + POLL_SECONDS
        /\ UNCHANGED <<restrictions, bypass_roles>>

CheckForVideos ==
    /\ last = NoEvent
    /\ now <= MaxPolls * POLL_SECONDS
    /\ \E fault \in YtFaults : check_for_videos(fault)

\* /y2-setup-youtube-notifications: an existing config is enabled again; a
\* new one is inserted and the entries of the feed are logged as seen
setup_notifications(g) ==
    LET seeded == [v \in Videos |->
                     LET entry == CHOOSE e \in {Feed[i] : i \in 1 .. Len(Feed)} :
                                      e.video_id = v
                     IN  IF db.youtube_notification_logs[g][v] # Null
                         THEN db.youtube_notification_logs[g][v]
                         ELSE IF now - entry.published_at > 3600
                         THEN Val("none") ELSE Val("seeded")]
    IN  /\ db' = IF db.youtube_notification_config[g] # Null
                 THEN [db EXCEPT !.youtube_notification_config[g] =
                                    Val([is_enabled |-> TRUE])]
                 ELSE [db EXCEPT !.youtube_notification_config[g] =
                                    Val([is_enabled |-> TRUE]),
                                 !.youtube_notification_logs[g] = seeded]
        /\ last' = [op |-> "yt_setup", guild_id |-> g]
        /\ UNCHANGED <<restrictions, bypass_roles, now, manager, guild>>

SetupNotifications ==
    /\ last = NoEvent
    /\ \E g \in YtGuilds : setup_notifications(g)

\* /y3-disable-youtube-notifications
disable_notifications(g) ==
    /\ db' = [db EXCEPT !.youtube_notification_config[g] =
                 IF @ = Null THEN @ ELSE Val([is_enabled |-> FALSE])]
    /\ last' = [op |-> "yt_disable", guild_id |-> g]
    /\ UNCHANGED <<restrictions, bypass_roles, now, manager, guild>>

DisableNotifications ==
    /\ last = NoEvent
    /\ \E g \in YtGuilds : disable_notifications(g)


(***************************************************************************)
(*                          Part IV: reminders                             *)
(*                                                                         *)
(* Time is counted in minutes.  The check loop is followed await by await: *)
(* the rows it fetched, the send of one reminder, the UPDATE after it.     *)
(* Commands run between these steps.                                       *)
(***************************************************************************)

ReminderIds == {"R1", "R2"}
ReminderOrder == <<"R1", "R2">>

\* Intervals are the strings the user typed, character by character
Once == <<"o", "n", "c", "e">>
DigitChars == <<"0", "1", "2", "3", "4", "5", "6", "7", "8", "9">>
IsDigit(c) == \E i \in 1 .. 10 : DigitChars[i] = c
DigitValue(c) == (CHOOSE i \in 1 .. 10 : DigitChars[i] = c) - 1

\* re.match(r"^\d+[dhm]$", interval)
MatchesInterval(interval) ==
    /\ Len(interval) >= 2
    /\ \A i \in 1 .. Len(interval) - 1 : IsDigit(interval[i])
    /\ interval[Len(interval)] \in {"d", "h", "m"}

\* ReminderManager._validate_interval
validate_interval(interval) == interval = Once \/ MatchesInterval(interval)

\* int(amount) of a string of digits
RECURSIVE ToInt(_)
ToInt(digits) ==
    IF digits = <<>> THEN 0
    ELSE 10 * ToInt(SubSeq(digits, 1, Len(digits) - 1))
             + DigitValue(digits[Len(digits)])

\* The last day a datetime can hold (9999-12-31), in days from the day of
\* minute 0 (2026-01-01)
DATETIME_MAX_DAY == 2912442

\* What _calculate_next_run gives: None, a time, or OverflowError
NoNextRun == [raised |-> FALSE, next_run |-> Null]

\* ReminderManager._calculate_next_run: last_run + timedelta(...), which
\* raises OverflowError when the sum is past the last day of year 9999
calculate_next_run(reminder) ==
    LET interval == reminder.interval
        last_run == reminder.next_run
        amount == ToInt(SubSeq(interval, 1, Len(interval) - 1))
        unit == interval[Len(interval)]
        days == IF unit = "d" THEN amount
                ELSE IF unit = "h" THEN amount \div 24
                ELSE amount \div 1440
        minutes == IF unit = "d" THEN 0
                   ELSE IF unit = "h" THEN (amount % 24) * 60
                   ELSE amount % 1440
        minute_of_day == (last_run % 1440) + minutes
        day == (last_run \div 1440) + days + (minute_of_day \div 1440)
    IN  IF interval = Once \/ ~MatchesInterval(interval) THEN NoNextRun
        ELSE IF day > DATETIME_MAX_DAY THEN [raised |-> TRUE, next_run |-> Null]
        ELSE [raised |-> FALSE,
              next_run |-> Val(day * 1440 + (minute_of_day % 1440))]

\* The check loop between two cycles
IdleLoop == [pc |-> "idle", due |-> <<>>]

\* SELECT * FROM reminders WHERE status = 'active' AND next_run <= now
DueReminders(rows, t) ==
    SelectSeq([i \in 1 .. Len(ReminderOrder) |->
                  [reminder_id |-> ReminderOrder[i], row |-> rows[ReminderOrder[i]]]],
              LAMBDA r : r.row.status = "active" /\ r.row.next_run <= t)

\* The cycles the loop runs
MaxCycles == 2

\* check_reminders_task up to its fetch, a cycle of @tasks.loop(minutes=1);
\* a fetch that raises ends the cycle
check_reminders_task(dbres) ==
    /\ manager.pc = "idle"
    /\ manager' = IF dbres = "ok"
                  THEN [pc |-> "loop", due |-> DueReminders(db.reminders, now)]
                  ELSE [pc |-> "loop", due |-> <<>>]
    /\ last' = [op |-> "reminders_fetched", status |-> dbres]
    /\ UNCHANGED <<restrictions, bypass_roles, now, db, guild>>

CheckReminders == \E dbres \in {"ok", "error"} : check_reminders_task(dbres)

\* _send_reminder up to `await channel.send(content)`: the row is the one
\* the cycle fetched; what is recorded is the row the datastore holds now
send_reminder_send(outcome) ==
    LET reminder == Head(manager.due)
        stored == db.reminders[reminder.reminder_id]
    IN  /\ manager.pc = "loop" /\ manager.due # <<>>
        /\ manager' = IF outcome = "ok" THEN [manager EXCEPT !.pc = "sent"]
                      ELSE [manager EXCEPT !.due = Tail(@)]
        /\ last' = [op |-> "reminder_send", reminder_id |-> reminder.reminder_id,
                    outcome |-> outcome, status |-> stored.status,
                    next_run |-> stored.next_run, at |-> now]
        /\ UNCHANGED <<restrictions, bypass_roles, now, db, guild>>

SendReminderSend ==
    \E outcome \in {"ok", "no_channel", "HTTPException"} : send_reminder_send(outcome)

\* The UPDATE of _send_reminder, by reminder_id alone
FiredRow(row, next_run, t) ==
    IF next_run # Null
    THEN [row EXCEPT !.next_run = next_run[1], !.last_run = Val(t),
                     !.run_count = @ + 1]
    ELSE [row EXCEPT !.status = "completed", !.last_run = Val(t),
                     !.run_count = @ + 1]

\* _send_reminder after the send: next_run from the fetched row, then the
\* UPDATE; an exception of either is logged
send_reminder_update(dbres) ==
    LET reminder == Head(manager.due)
        id == reminder.reminder_id
        next == calculate_next_run(reminder.row)
        written == ~next.raised /\ dbres = "ok"
    IN  /\ manager.pc = "sent"
        /\ manager' = [pc |-> "loop", due |-> Tail(manager.due)]
        /\ db' = IF written
                 THEN [db EXCEPT !.reminders[id] = FiredRow(@, next.next_run, now)]
                 ELSE db
        /\ last' = [op |-> "reminder_fired", reminder_id |-> id,
                    fetched |-> reminder.row, before |-> db.reminders[id],
                    raised |-> IF next.raised THEN "OverflowError"
                               ELSE IF dbres # "ok" THEN "datastore"
                               ELSE "none"]
        /\ UNCHANGED <<restrictions, bypass_roles, now, guild>>

SendReminderUpdate == \E dbres \in {"ok", "error"} : send_reminder_update(dbres)

\* The cycle is over; the next one starts a minute later
EndOfCycle ==
    /\ manager.pc = "loop" /\ manager.due = <<>>
    /\ now < MaxCycles
    /\ manager' = IdleLoop
    /\ now' = now + 1
    /\ last' = NoEvent
    /\ UNCHANGED <<restrictions, bypass_roles, db, guild>>

\* The commands members send while the loop runs, MaxCommands at most
MaxCommands == 1

Interaction ==
    /\ guild.interactions < MaxCommands
    /\ guild' = [guild EXCEPT !.interactions = @ + 1]
    /\ UNCHANGED <<restrictions, bypass_roles, now, manager>>

\* /r4-pause
pause_reminder(id) ==
    /\ db' = [db EXCEPT !.reminders[id].status =
                 IF @ = "active" THEN "paused" ELSE "active"]
    /\ last' = [op |-> "r4-pause", reminder_id |-> id]
    /\ Interaction

PauseReminder == \E id \in ReminderIds : pause_reminder(id)

\* /r2-delete
delete_reminder(id) ==
    /\ db' = [db EXCEPT !.reminders[id].status = "deleted"]
    /\ last' = [op |-> "r2-delete", reminder_id |-> id]
    /\ Interaction

DeleteReminder == \E id \in ReminderIds : delete_reminder(id)

\* ---- the time and the commands that take one -----------------------------
\* str.split(c): the pieces of s between the occurrences of c
RECURSIVE Split(_, _)
Split(s, c) ==
    IF s = <<>> THEN << <<>> >>
    ELSE LET rest == Split(Tail(s), c)
         IN  IF Head(s) = c THEN << <<>> >> \o rest
             ELSE << <<Head(s)>> \o Head(rest) >> \o Tail(rest)

Contains(s, c) == \E i \in 1 .. Len(s) : s[i] = c

\* int(piece) does not raise ValueError, for pieces of digits and letters
IsInt(piece) == piece # <<>> /\ \A i \in 1 .. Len(piece) : IsDigit(piece[i])

\* The days of the year before each month of 2026, minute 0 being
\* 2026-01-01 00:00 on the clock of the reminders' time zone
DaysBefore == <<0, 31, 59, 90, 120, 151, 181, 212, 243, 273, 304, 334, 365>>

\* now.replace(month, day, hour, minute, second=0): the minute it names, or
\* Null where replace raises ValueError
replace(month, day, hour, minute) ==
    IF /\ month \in 1 .. 12
       /\ day >= 1 /\ day <= DaysBefore[month + 1] - DaysBefore[month]
       /\ hour \in 0 .. 23
       /\ minute \in 0 .. 59
    THEN Val(((DaysBefore[month] + day - 1) * 24 + hour) * 60 + minute)
    ELSE Null

\* hour, minute = map(int, piece.split(":")): Null where it raises
HourMinute(piece) ==
    LET parts == Split(piece, ":")
    IN  IF Len(parts) = 2 /\ IsInt(parts[1]) /\ IsInt(parts[2])
        THEN Val([hour |-> ToInt(parts[1]), minute |-> ToInt(parts[2])])
        ELSE Null

\* The month (1 .. 12) and the day of the month of minute t of 2026
MonthOf(t) == CHOOSE m \in 1 .. 12 :
                 /\ DaysBefore[m] <= t \div 1440
                 /\ t \div 1440 < DaysBefore[m + 1]
DayOf(t) == t \div 1440 - DaysBefore[MonthOf(t)] + 1

\* ReminderManager._parse_time at time t: a time, or None (Null)
parse_time(time_str, t) ==
    IF Contains(time_str, ":") /\ ~Contains(time_str, "/")
    THEN LET hm == HourMinute(time_str)
             dt == IF hm = Null THEN Null
                   ELSE replace(MonthOf(t), DayOf(t), hm[1].hour, hm[1].minute)
         IN  IF dt = Null THEN Null
             ELSE IF dt[1] <= t THEN Val(dt[1] + 1440)
             ELSE dt
    ELSE IF Contains(time_str, "/")
    THEN LET pieces == SelectSeq(Split(time_str, " "), LAMBDA x : x # <<>>)
             date == IF Len(pieces) = 2 THEN Split(pieces[1], "/") ELSE <<>>
             hm == IF Len(pieces) = 2 THEN HourMinute(pieces[2]) ELSE Null
         IN  IF Len(date) = 2 /\ IsInt(date[1]) /\ IsInt(date[2]) /\ hm # Null
             THEN replace(ToInt(date[1]), ToInt(date[2]), hm[1].hour, hm[1].minute)
             ELSE Null
    ELSE Null

\* The row of a reminder that was just created
NewReminder(next_run, interval) ==
    [status |-> "active", next_run |-> next_run, interval |-> interval,
     message |-> "m0", run_count |-> 0, last_run |-> Null]

\* /r1-create: timezone, time and interval are validated in this order, and
\* then the row is inserted; an exception of the INSERT is reported
create_reminder(id, tz_valid, time, interval, dbres) ==
    LET parsed_time == parse_time(time, now)
        rejected == IF ~tz_valid THEN "timezone"
                    ELSE IF parsed_time = Null THEN "time"
                    ELSE IF ~validate_interval(interval) THEN "interval"
                    ELSE IF dbres = "error" THEN "error"
                    ELSE "no"
    IN  /\ id \notin DOMAIN db.reminders
        /\ db' = IF rejected # "no" THEN db
                 ELSE [db EXCEPT !.reminders =
                          @ @@ (id :> NewReminder(parsed_time[1], interval))]
        /\ last' = [op |-> "r1-create", reminder_id |-> id, rejected |-> rejected,
                    time |-> time, interval |-> interval,
                    before |-> db.reminders]
        /\ Interaction

\* /r3-edit: the fields that were given; a time that does not parse is left
\* out of the UPDATE without a word, an interval that does not validate ends
\* the command.  updated_at, which nothing reads, is left out.
edit_reminder(id, message, time, interval) ==
    LET parsed == IF time = Null THEN Null ELSE parse_time(time[1], now)
        bad_interval == interval # Null /\ ~validate_interval(interval[1])
        no_updates == message = Null /\ parsed = Null /\ interval = Null
        rejected == IF bad_interval THEN "interval"
                    ELSE IF no_updates THEN "no changes"
                    ELSE IF id \notin DOMAIN db.reminders THEN "not found"
                    ELSE "no"
        edited(row) ==
            [row EXCEPT
               !.message = IF message # Null THEN message[1] ELSE @,
               !.next_run = IF parsed # Null THEN parsed[1] ELSE @,
               !.interval = IF interval # Null THEN interval[1] ELSE @]
    IN  /\ db' = IF rejected # "no" THEN db
                 ELSE [db EXCEPT !.reminders[id] = edited(@)]
        /\ last' = [op |-> "r3-edit", reminder_id |-> id,
                    rejected |-> rejected # "no", answer |-> rejected,
                    message |-> message, time |-> time, interval |-> interval,
                    before |-> db.reminders]
        /\ Interaction

\* "00:05", "25:00", "soon", "01/01 00:07", "02/30 10:00"
T0005 == <<"0", "0", ":", "0", "5">>
T2500 == <<"2", "5", ":", "0", "0">>
TSoon == <<"s", "o", "o", "n">>
TJan1 == <<"0", "1", "/", "0", "1", " ", "0", "0", ":", "0", "7">>
TFeb30 == <<"0", "2", "/", "3", "0", " ", "1", "0", ":", "0", "0">>

\* /r3-edit while the loop runs: a new time of day or a new interval
EditTimes == {Null, Val(T0005)}
EditIntervals == {Null, Val(Once), Val(<<"2", "w">>)}

EditReminder ==
    \E id \in ReminderIds, time \in EditTimes, interval \in EditIntervals :
        /\ (time = Null) # (interval = Null)
        /\ edit_reminder(id, Null, time, interval)

\* The commands with every kind of input
TimeStrings == {T0005, T2500, TSoon, TJan1, TFeb30}
IntervalStrings == {Once, <<"3", "0", "m">>, <<"2", "w">>, <<"d">>}
EditMessages == {Null, Val("m1")}

CreateReminder ==
    \E id \in ReminderIds, tz_valid \in BOOLEAN, time \in TimeStrings,
       interval \in IntervalStrings, dbres \in {"ok", "error"} :
        /\ (~tz_valid \/ dbres = "error") => (time = T0005 /\ interval = Once)
        /\ create_reminder(id, tz_valid, time, interval, dbres)

EditReminderFields ==
    \E id \in ReminderIds, message \in EditMessages,
       time \in {Null} \cup {Val(x) : x \in TimeStrings},
       interval \in {Null} \cup {Val(x) : x \in IntervalStrings} :
        edit_reminder(id, message, time, interval)

\* Time passes between the commands
CommandTick ==
    /\ now < MaxCycles
    /\ now' = now + 1
    /\ last' = NoEvent
    /\ UNCHANGED <<restrictions, bypass_roles, db, manager, guild>>


(***************************************************************************)
(*             Part V: on_message, one await after the other               *)
(*                                                                         *)
(* Several messages of one member are handled at once: each handler runs   *)
(* from one await to the next in a step, and the steps of different        *)
(* handlers interleave.  manager.tasks holds the local variables of the    *)
(* handlers.                                                               *)
(***************************************************************************)

\* The handlers, named in the order in which their messages arrive
Handlers == {"h1", "h2", "h3"}
HandlerOrder == <<"h1", "h2", "h3">>
Earlier(h) == {HandlerOrder[i] : i \in 1 .. (CHOOSE j \in 1 .. 3 : HandlerOrder[j] = h) - 1}

NewTask ==
    [pc |-> "new", arrived |-> 0, amount |-> 0, old_level |-> 0,
     awarded |-> FALSE]

TaskDone(st, h) == [st EXCEPT !.manager.tasks[h].pc = "done"]

\* on_message up to its first await, with the cooldown never recorded
on_message_start_NoCooldown(h, m, author) ==
    /\ manager.tasks[h].pc = "new"
    /\ Commit([Cur EXCEPT !.manager.tasks[h].arrived = now,
                          !.manager.tasks[h].pc =
                              IF author = "member" THEN "settings" ELSE "done"])
    /\ UNCHANGED <<restrictions, bypass_roles, now, last>>

\* on_message up to its first await: the test of the cooldown and its
\* update are one step
on_message_start(h, m, author) ==
    LET last_msg == manager.message_cooldowns[m]
        arrived == [Cur EXCEPT !.manager.tasks[h].arrived = now]
    IN  /\ manager.tasks[h].pc = "new"
        /\ IF author # "member"
           THEN Commit(TaskDone(arrived, h))
           ELSE IF last_msg # Null /\ now - last_msg[1] < 60
           THEN Commit(TaskDone(arrived, h))
           ELSE Commit([arrived EXCEPT !.manager.message_cooldowns[m] = Val(now),
                                       !.manager.tasks[h].pc = "settings"])
        /\ UNCHANGED <<restrictions, bypass_roles, now, last>>

\* settings = await self.get_guild_settings(...); amount
on_message_settings(h, attachments) ==
    LET gs == get_guild_settings(Cur, now)
        amount == IF "image" \in attachments
                  THEN gs.settings.xp_per_image
                  ELSE gs.settings.xp_per_message
    IN  /\ manager.tasks[h].pc = "settings"
        /\ Commit([gs.st EXCEPT !.manager.tasks[h].amount = amount,
                                !.manager.tasks[h].pc = "get_user"])
        /\ UNCHANGED <<restrictions, bypass_roles, now, last>>

\* user_data = await self.get_user(...); old_level
on_message_get_user(h, m) ==
    LET got == get_user(Cur, m)
    IN  /\ manager.tasks[h].pc = "get_user"
        /\ Commit([got.st EXCEPT !.manager.tasks[h].old_level = got.user.level,
                                 !.manager.tasks[h].pc = "update"])
        /\ UNCHANGED <<restrictions, bypass_roles, now, last>>

\* new_level = await self.update_user_xp(...), then the level-up handling
\* if the level rose
on_message_update(h, m) ==
    LET task == manager.tasks[h]
        upd == update_user_xp(Cur, m, task.amount, 0)
        lvl == IF upd.new_level > task.old_level
               THEN check_and_handle_level_up(upd.st, m, upd.new_level, AllOk)
               ELSE NoLevelUp(upd.st)
    IN  /\ task.pc = "update"
        /\ Commit([lvl.st EXCEPT !.manager.tasks[h].awarded = TRUE,
                                 !.manager.tasks[h].pc = "done"])
        /\ UNCHANGED <<restrictions, bypass_roles, now, last>>

OnMessageStep ==
    \E h \in Handlers, m \in Members :
        \/ \E author \in {"member", "bot"} :
            /\ \A e \in Earlier(h) : manager.tasks[e].pc # "new"
            /\ on_message_start(h, m, author)
        \/ \E attachments \in {{}, {"image"}} : on_message_settings(h, attachments)
        \/ on_message_get_user(h, m)
        \/ on_message_update(h, m)

\* LevelManager.cleanup_cooldowns: the entries older than an hour go
cleanup_cooldowns ==
    /\ manager' = [manager EXCEPT !.message_cooldowns =
                      [m \in Members |->
                          IF @[m] # Null /\ @[m][1] < now - 3600 THEN Null
                          ELSE @[m]]]
    /\ manager'.message_cooldowns # manager.message_cooldowns
    /\ UNCHANGED <<restrictions, bypass_roles, now, db, guild, last>>

\* Time between the steps: half a minute or a minute, MaxCooldownTicks half
\* minutes at most, and once more than an hour
MaxCooldownTicks == 3
CooldownDelays == {30, 60}

CooldownTick ==
    /\ \/ \E d \in CooldownDelays :
            /\ now + d <= MaxCooldownTicks * 30
            /\ now' = now + d
       \/ /\ now <= MaxCooldownTicks * 30
          /\ now' = now + 3601 + MaxCooldownTicks * 30
    /\ UNCHANGED <<restrictions, bypass_roles, db, manager, guild, last>>


(***************************************************************************)
(*                     Part VI: the auto-reset loop                        *)
(*                                                                         *)
(* Two guilds have an auto_reset row or none.  Time is in hours.  Every    *)
(* hour reset_loop reads the whole table once and then works through the   *)
(* rows it read; a full reset awaits Discord and the datastore, so the     *)
(* commands of administrators run between the rows.  db is                 *)
(* [auto_reset], manager is the loop's position [pc, now_utc, configs]     *)
(* and guild is [interactions, reset_at], reset_at being the time of the   *)
(* guild's latest completed automatic reset.                               *)
(***************************************************************************)

ArGuilds == {"g1", "g2"}
ArOrder == <<"g1", "g2">>

\* /l6-set-auto-reset takes 1 .. 365 days
ResetDays == {1, 2}

\* timedelta.days of a span of `hours` hours that is not negative
whole_days(hours) == hours \div 24

\* SELECT * FROM public.auto_reset
RECURSIVE auto_reset_rows(_, _)
auto_reset_rows(table, todo) ==
    IF todo = <<>> THEN <<>>
    ELSE LET g == Head(todo)
             rest == auto_reset_rows(table, Tail(todo))
         IN  IF table[g] = Null THEN rest
             ELSE <<[guild_id |-> g, days |-> table[g][1].days,
                     last_reset |-> table[g][1].last_reset]>> \o rest

IdleResetLoop == [pc |-> "idle", now_utc |-> 0, configs |-> <<>>]

\* LevelManager.check_and_run_auto_reset, up to the rows it has fetched
check_and_run_auto_reset ==
    /\ manager.pc = "idle"
    /\ manager' = [pc |-> "rows", now_utc |-> now,
                   configs |-> auto_reset_rows(db.auto_reset, ArOrder)]
    /\ last' = NoEvent
    /\ UNCHANGED <<restrictions, bypass_roles, now, db, guild>>

CheckAndRunAutoReset == check_and_run_auto_reset

\* (now_utc - row["last_reset"]).days >= row["days"]
auto_reset_due(row, t) == whole_days(t - row.last_reset) >= row.days

\* One pass of the loop body of check_and_run_auto_reset.  found: the bot is
\* in the guild; raised: _perform_full_reset or the UPDATE of last_reset
\* raises: no handler is around the body, the exception leaves
\* check_and_run_auto_reset and the rows not yet looked at go with the call
auto_reset_row(found, raised) ==
    LET row == Head(manager.configs)
        rest == Tail(manager.configs)
        g == row.guild_id
        event == [op |-> "auto_reset", guild_id |-> g, at |-> now,
                  row |-> row, before |-> db.auto_reset[g],
                  previous |-> guild.reset_at[g], remaining |-> rest]
    IN  /\ manager.pc = "rows" /\ manager.configs # <<>>
        /\ UNCHANGED <<restrictions, bypass_roles, now>>
        /\ IF ~(auto_reset_due(row, manager.now_utc) /\ found)
           THEN /\ manager' = [manager EXCEPT !.configs = rest]
                /\ last' = [event EXCEPT !.op = "auto_reset_skipped"]
                /\ UNCHANGED <<db, guild>>
           ELSE IF raised
           THEN /\ manager' = IdleResetLoop
                /\ last' = [event EXCEPT !.op = "auto_reset_raised"]
                /\ UNCHANGED <<db, guild>>
           ELSE /\ manager' = [manager EXCEPT !.configs = rest]
                /\ last' = event
                /\ guild' = [guild EXCEPT !.reset_at[g] = Val(now)]
                /\ db' = [db EXCEPT !.auto_reset[g] =
                             IF @ = Null THEN Null
                             ELSE Val([@[1] EXCEPT !.last_reset = now])]

AutoResetRow ==
    \E found \in BOOLEAN, raised \in BOOLEAN : auto_reset_row(found, raised)

\* check_and_run_auto_reset returns and reset_loop sleeps
AutoResetDone ==
    /\ manager.pc = "rows" /\ manager.configs = <<>>
    /\ manager' = IdleResetLoop
    /\ last' = NoEvent
    /\ UNCHANGED <<restrictions, bypass_roles, now, db, guild>>

\* The hours from one check the model looks at to the next, the checks in
\* between finding nothing due: short of a day and over a day, so that 23,
\* 25, 46 and 48 hours are met; MaxResetHours hours in all
MaxResetHours == 50
ResetDelays == {23, 25}

ResetLoopTick ==
    /\ manager.pc = "idle"
    /\ \E d \in ResetDelays :
        /\ now + d <= MaxResetHours
        /\ now' = now + d
    /\ last' = NoEvent
    /\ UNCHANGED <<restrictions, bypass_roles, db, manager, guild>>

\* /l6-set-auto-reset and the dashboard's POST .../auto-reset
set_auto_reset(g, days) ==
    /\ db' = [db EXCEPT !.auto_reset[g] =
                 Val([days |-> days, last_reset |-> now])]
    /\ last' = [op |-> "l6-set-auto-reset", guild_id |-> g]
    /\ Interaction

SetAutoReset == \E g \in ArGuilds, days \in ResetDays : set_auto_reset(g, days)

\* /l8-stop-auto-reset and the dashboard's DELETE .../auto-reset
stop_auto_reset(g) ==
    /\ db' = [db EXCEPT !.auto_reset[g] = Null]
    /\ last' = [op |-> "l8-stop-auto-reset", guild_id |-> g]
    /\ Interaction

StopAutoReset == \E g \in ArGuilds : stop_auto_reset(g)


(***************************************************************************)
(*                  Part VII: the start of the four loops                  *)
(*                                                                         *)
(* Time is in seconds of the clock the loops read.  When the bot is ready  *)
(* each loop runs its before_loop hook once and then its first iteration.  *)
(* manager is, for every loop, [pc, asked, wake, first]: where the loop    *)
(* is, when its hook read the clock, when its sleep ends and when its      *)
(* first iteration ran; guild is [started], the time the bot was ready.    *)
(***************************************************************************)

Loops == {"update_time_channels", "check_for_videos", "reset_loop", "check_reminders_task"}

\* @tasks.loop(minutes=10), (minutes=15), (hours=1), (minutes=1), in seconds
Period(loop) ==
    CASE loop = "update_time_channels" -> 10 * 60
      [] loop = "check_for_videos"     -> POLL_SECONDS
      [] loop = "reset_loop"           -> 60 * 60
      [] loop = "check_reminders_task" -> 60

\* now.minute and now.second of the clock at time t
now_minute(t) == (t \div 60) % 60
now_second(t) == t % 60

ReadyLoop == [pc |-> "ready", asked |-> Null, wake |-> Null, first |-> Null]

\* A hook that has read the clock at now and sleeps for seconds_to_wait
Sleeping(seconds_to_wait) ==
    [pc |-> "sleeping", asked |-> Val(now), wake |-> Val(now + seconds_to_wait),
     first |-> Null]

\* The hook of `loop` returns after asyncio.sleep(seconds_to_wait)
Hooked(loop, seconds_to_wait) ==
    [manager EXCEPT ![loop] = Sleeping(seconds_to_wait)]

\* DateTimeManager.before_update_time_channels
before_update_time_channels ==
    LET minutes_to_wait == 10 - (now_minute(now) % 10)
        seconds_to_wait == (minutes_to_wait * 60) - now_second(now)
    IN  /\ manager["update_time_channels"].pc = "ready"
        /\ manager' = Hooked("update_time_channels", seconds_to_wait)
        /\ last' = [op |-> "before_loop", loop |-> "update_time_channels"]
        /\ UNCHANGED <<restrictions, bypass_roles, now, db, guild>>

\* YouTubeManager.before_check_for_videos
before_check_for_videos ==
    LET minutes_to_wait == 15 - (now_minute(now) % 15)
    IN  /\ manager["check_for_videos"].pc = "ready"
        /\ manager' = Hooked("check_for_videos",
                              (minutes_to_wait * 60) - now_second(now))
        /\ last' = [op |-> "before_loop", loop |-> "check_for_videos"]
        /\ UNCHANGED <<restrictions, bypass_roles, now, db, guild>>

\* ReminderManager.before_check_reminders: wait_until_ready and a log line,
\* no sleep
before_check_reminders ==
    /\ manager["check_reminders_task"].pc = "ready"
    /\ manager' = Hooked("check_reminders_task", 0)
    /\ last' = [op |-> "before_loop", loop |-> "check_reminders_task"]
    /\ UNCHANGED <<restrictions, bypass_roles, now, db, guild>>

\* LevelManager.before_reset_loop: wait_until_ready, no sleep
before_reset_loop ==
    /\ manager["reset_loop"].pc = "ready"
    /\ manager' = Hooked("reset_loop", 0)
    /\ last' = [op |-> "before_loop", loop |-> "reset_loop"]
    /\ UNCHANGED <<restrictions, bypass_roles, now, db, guild>>

\* The first iteration of a loop, when the sleep of its hook is over
first_iteration(loop) ==
    /\ manager[loop].pc = "sleeping"
    /\ manager[loop].wake = Val(now)
    /\ manager' = [manager EXCEPT ![loop].pc = "looping",
                                  ![loop].first = Val(now)]
    /\ last' = [op |-> "first_iteration", loop |-> loop]
    /\ UNCHANGED <<restrictions, bypass_roles, now, db, guild>>

FirstIteration == \E loop \in Loops : first_iteration(loop)

\* The wakes still ahead
Wakes == {manager[l].wake[1] : l \in {x \in Loops : manager[x].pc = "sleeping"}}

\* The hooks start within MaxStartupSeconds seconds of one another
MaxStartupSeconds == 2

\* Time passes: a second while hooks are still to run, or up to the next
\* wake; no sleep is overslept
StartupTick ==
    /\ \A w \in Wakes : w > now
    /\ \/ /\ \E l \in Loops : manager[l].pc = "ready"
          /\ now + 1 <= guild.started + MaxStartupSeconds
          /\ now' = now + 1
       \/ /\ \A l \in Loops : manager[l].pc # "ready"
          /\ \E w \in Wakes :
                /\ \A v \in Wakes : w <= v
                /\ now' = w
    /\ last' = NoEvent
    /\ UNCHANGED <<restrictions, bypass_roles, db, manager, guild>>


(***************************************************************************)
(*                  Part VIII: who may use the dashboard                   *)
(*                                                                         *)
(* Every endpoint of a guild starts with user_has_access(current_user.id,  *)
(* guild_id).  db has the table dashboard_user_servers next to the tables  *)
(* of Part II, here the set of the users recorded for the guild, and       *)
(* manager has current_user, the user of the session.                      *)
(***************************************************************************)

DashboardUsers == {"u1", "u2"}

\* What the lookup in dashboard_user_servers meets: it runs, there is no
\* pool, or it raises
LookupResults == {"ok", "no_pool", "error"}

\* user_has_access: False without a pool, the row's presence when the query
\* runs, and True when it raises
user_has_access(user_id, lookup) ==
    IF lookup = "no_pool" THEN FALSE
    ELSE IF lookup = "error" THEN TRUE
    ELSE user_id \in db.dashboard_user_servers

\* /dashboard/callback: the session of a user who came back from Discord
Login ==
    /\ last = NoEvent
    /\ \E user \in DashboardUsers :
        /\ manager.current_user # Val(user)
        /\ manager' = [manager EXCEPT !.current_user = Val(user)]
    /\ UNCHANGED <<restrictions, bypass_roles, now, db, guild, last>>

\* The endpoints as the session's user calls them (@login_required), the
\* rest of the request being in order
SessionCreateRestriction ==
    /\ last = NoEvent /\ manager.current_user # Null
    /\ \E lookup \in LookupResults, channel_id \in Channels :
        create_channel_restriction_v2(
            user_has_access(manager.current_user[1], lookup), TRUE, channel_id,
            "absent", DISCORD_INVITES, 0, None, "ok")

SessionUpdateRestriction ==
    /\ last = NoEvent /\ manager.current_user # Null
    /\ \E lookup \in LookupResults, restriction_id \in RequestIds :
        update_channel_restriction_v2(
            user_has_access(manager.current_user[1], lookup), restriction_id,
            "absent", PLAIN_TEXT, 0, None, "ok")

SessionDeleteRestriction ==
    /\ last = NoEvent /\ manager.current_user # Null
    /\ \E lookup \in LookupResults, restriction_id \in RequestIds :
        delete_channel_restriction_v2(
            user_has_access(manager.current_user[1], lookup), restriction_id, "ok")

SessionUpdateSettings ==
    /\ last = NoEvent /\ manager.current_user # Null
    /\ \E lookup \in LookupResults :
        update_server_settings(
            user_has_access(manager.current_user[1], lookup),
            [DefaultSettings EXCEPT !.voice_xp_limit = 20], "ok")

SessionResetXp ==
    /\ last = NoEvent /\ manager.current_user # Null
    /\ \E lookup \in LookupResults :
        manual_reset_xp(user_has_access(manager.current_user[1], lookup), "ok", "ok")


(***************************************************************************)
(*                                                                         *)
(*              Part IX: the dashboard's connection pool                   *)
(*                                                                         *)
(***************************************************************************)

\* init_db_pool: a SimpleConnectionPool that hands out at most 5 connections
MAXCONN == 5

\* Where the code that works on a connection first raises, if anywhere
ConnFaults == {"ok", "getconn", "cursor", "execute"}

\* What fetching the RSS feed gives seed_youtube_videos
RssResults == {"ok", "http_error", "no_entries", "raise"}

\* A function about to run with `out` connections checked out of the pool:
\* conn = None, cursor not yet bound, nothing raised
Frame(out) ==
    [out |-> out, conn |-> FALSE, cursor |-> FALSE, raised |-> FALSE]

\* conn = pool.getconn(): raises when asked to or when the pool is exhausted
getconn(f, fault) ==
    IF fault = "getconn" \/ f.out >= MAXCONN
    THEN [f EXCEPT !.raised = TRUE]
    ELSE [f EXCEPT !.out = @ + 1, !.conn = TRUE]

\* cursor = conn.cursor(), skipped when an earlier statement raised
cursor(f, fault) ==
    IF f.raised THEN f
    ELSE IF fault = "cursor" THEN [f EXCEPT !.raised = TRUE]
    ELSE [f EXCEPT !.cursor = TRUE]

\* cursor.execute(...) and conn.commit(), skipped when an earlier statement raised
execute(f, fault) ==
    IF f.raised THEN f
    ELSE IF fault = "execute" THEN [f EXCEPT !.raised = TRUE]
    ELSE f

\* The opening of every try block: getconn, cursor, the queries
queries(out, fault) ==
    execute(cursor(getconn(Frame(out), fault), fault), fault)

\* pool.putconn(conn)
putconn(f) ==
    [f EXCEPT !.out = @ - 1]

\* finally: if conn: pool.putconn(conn)
finally_putconn(f) ==
    IF f.conn THEN putconn(f) ELSE f

\* finally: if conn: cursor.close(); pool.putconn(conn), where cursor.close()
\* raises UnboundLocalError when conn.cursor() never bound the name
finally_close_putconn(f) ==
    IF ~f.conn THEN f
    ELSE IF f.cursor THEN putconn(f)
    ELSE [f EXCEPT !.raised = TRUE]

\* log_dashboard_activity: try/finally without an except, so what raises
\* reaches the caller
log_dashboard_activity(out, fault) ==
    finally_putconn(queries(out, fault))

\* increment_command_counter: the except logs and swallows, the finally
\* closes the cursor and then returns the connection
increment_command_counter(out, fault) ==
    finally_close_putconn([queries(out, fault) EXCEPT !.raised = FALSE])

\* seed_youtube_videos: no connection unless the feed was fetched and has
\* entries; then a try/except/finally of its own, every exception answered
\* with an error dict
seed_youtube_videos(out, rss, fault) ==
    IF rss # "ok" THEN Frame(out)
    ELSE finally_putconn([queries(out, fault) EXCEPT !.raised = FALSE])

\* The frame `f` of a handler after a call that left `inner`: the pool as
\* the call left it, and the call's exception if it raised
called(f, inner) ==
    [f EXCEPT !.out = inner.out, !.raised = inner.raised]

\* POST /api/server/<guild_id>/channel-restrictions-v2/data as the pool sees
\* it: the answer's status and the connections out when the request ends
create_channel_restriction_v2_conn(out, valid, fault, exists, log_fault) ==
    IF ~valid THEN [status |-> 400, out |-> out]
    ELSE
        LET body == queries(out, fault)
            logged == called(body, log_dashboard_activity(body.out, log_fault))
        IN  IF body.raised THEN [status |-> 500, out |-> finally_putconn(body).out]
            ELSE IF exists THEN [status |-> 409, out |-> finally_putconn(body).out]
            ELSE [status |-> IF logged.raised THEN 500 ELSE 201,
                  out |-> finally_putconn(logged).out]

\* POST /api/server/<guild_id>/youtube/config: the queries, the activity log,
\* the command counter and, for a new setup, the seeding, all inside the try;
\* an exception leaving the finally block is Flask's 500
save_youtube_config(out, valid, fault, is_new_setup, log_fault, inc_fault, rss, seed_fault) ==
    IF ~valid THEN [status |-> 400, out |-> out]
    ELSE
        LET body == queries(out, fault)
            logged ==
                IF body.raised THEN body
                ELSE called(body, log_dashboard_activity(body.out, log_fault))
            counted ==
                IF logged.raised THEN logged
                ELSE called(logged, increment_command_counter(logged.out, inc_fault))
            seeded ==
                IF counted.raised \/ ~is_new_setup THEN counted
                ELSE called(counted, seed_youtube_videos(counted.out, rss, seed_fault))
            caught == [seeded EXCEPT !.raised = FALSE]
            done == finally_close_putconn(caught)
        IN  [status |-> IF seeded.raised \/ done.raised THEN 500 ELSE 200,
             out |-> done.out]

\* A restriction is created through the dashboard
CreateChannelRestrictionV2 ==
    \E valid, exists \in BOOLEAN, fault, log_fault \in ConnFaults :
        LET answer == create_channel_restriction_v2_conn(
                          db.checked_out, valid, fault, exists, log_fault)
        IN  /\ db' = [db EXCEPT !.checked_out = answer.out]
            /\ last' = [op |-> "create_channel_restriction_v2",
                        status |-> answer.status, before |-> db.checked_out,
                        fault |-> fault]
            /\ UNCHANGED <<restrictions, bypass_roles, now, manager, guild>>

\* A YouTube configuration is saved through the dashboard
SaveYoutubeConfig ==
    \E valid, is_new_setup \in BOOLEAN, fault, log_fault, inc_fault, seed_fault \in ConnFaults,
       rss \in RssResults :
        LET answer == save_youtube_config(
                          db.checked_out, valid, fault, is_new_setup,
                          log_fault, inc_fault, rss, seed_fault)
        IN  /\ db' = [db EXCEPT !.checked_out = answer.out]
            /\ last' = [op |-> "save_youtube_config",
                        status |-> answer.status, before |-> db.checked_out,
                        fault |-> fault]
            /\ UNCHANGED <<restrictions, bypass_roles, now, manager, guild>>


(***************************************************************************)
(*                                                                         *)
(*                 Part X: the redirect notice's lifetime                  *)
(*                                                                         *)
(***************************************************************************)

\* The messages whose handlers run side by side
NoticeHandlers == {"h1", "h2"}

\* await asyncio.sleep(15)
NOTICE_SECONDS == 15

\* The clock stops at MaxNoticeClock seconds
MaxNoticeClock == 30

\* The clock is read every NoticeStep seconds
NoticeStep == 5

\* The messages the handlers are given: text or nothing
NoticeMessages ==
    {m \in Messages : m.attachments = {} /\ ~m.embeds /\ Len(m.content) <= 1}

\* What Discord answers to warn_msg.delete(): done, or refused
WarnDeleteResults == {"ok", "Forbidden"}

\* A handler that has not been given its message
NewNoticeTask == [pc |-> "new", posted_at |-> Null]

\* What is seen of one message: how message.delete() ended, the notice, the
\* number of message.delete() calls, the Forbidden warning in the log, and
\* the moment and answer of warn_msg.delete()
NothingSeen ==
    [delete |-> "none", notice |-> "none", redirect |-> None, deletes |-> 0,
     logged |-> FALSE, attempt |-> Null]

\* on_message from the lookup of the row to asyncio.sleep(15): the message is
\* classified, deleted when blocked, and the notice sent; a Forbidden from
\* delete or send reaches the handler's except clause, which logs it
on_message_enforce(h, message, d) ==
    /\ manager.tasks[h].pc = "new"
    /\ now + NOTICE_SECONDS <= MaxNoticeClock
    /\ \E config \in RowsOf("c1") :
        LET decision == Evaluate(detect_content_types(message),
                                 OrZero(config.allowed), OrZero(config.blocked))
            effect == Enforce(decision, config.redirect, d.del, d.chan, d.send)
            sent == decision.block /\ d.del = "ok" /\ config.redirect # None
                        /\ d.chan = "found"
        IN  /\ manager' = [manager EXCEPT !.tasks[h] =
                    IF effect.notice = "posted"
                    THEN [pc |-> "sleeping", posted_at |-> Val(now)]
                    ELSE [pc |-> "done", posted_at |-> Null]]
            /\ guild' = [guild EXCEPT ![h] =
                    [delete |-> effect.delete, notice |-> effect.notice,
                     redirect |-> config.redirect,
                     deletes |-> IF decision.block THEN 1 ELSE 0,
                     logged |-> decision.block /\
                                  (d.del = "Forbidden" \/ (sent /\ d.send = "Forbidden")),
                     attempt |-> Null]]
            /\ last' = [op |-> "enforce", handler |-> h, delete |-> effect.delete,
                        notice |-> effect.notice]
    /\ UNCHANGED <<restrictions, bypass_roles, now, db>>

\* A message arrives in the restricted channel
OnMessageEnforce ==
    \E h \in NoticeHandlers, message \in NoticeMessages, d \in DiscordAnswers :
        on_message_enforce(h, message, d)

\* The sleep of a handler is over `seconds` after it posted its notice
slept(h, seconds) ==
    /\ manager.tasks[h].pc = "sleeping"
    /\ now - manager.tasks[h].posted_at[1] >= seconds

\* The sleep with a shorter delay than the notice is given
warn_msg_delete_Early(h, answer) ==
    /\ slept(h, NOTICE_SECONDS - NoticeStep)
    /\ manager' = [manager EXCEPT !.tasks[h].pc = "done"]
    /\ guild' = [guild EXCEPT
            ![h].attempt = Val([at |-> now, answer |-> answer]),
            ![h].notice = IF answer = "ok" THEN "removed" ELSE @]
    /\ last' = [op |-> "warn_msg_delete", handler |-> h, answer |-> answer]
    /\ UNCHANGED <<restrictions, bypass_roles, now, db>>

\* on_message after asyncio.sleep(15): try: await warn_msg.delete(), except:
\* pass; someone else having removed the notice, Discord answers NotFound
warn_msg_delete(h, answer) ==
    /\ slept(h, NOTICE_SECONDS)
    /\ manager' = [manager EXCEPT !.tasks[h].pc = "done"]
    /\ guild' = [guild EXCEPT
            ![h].attempt = Val([at |-> now, answer |-> answer]),
            ![h].notice = IF answer = "ok" THEN "removed" ELSE @]
    /\ last' = [op |-> "warn_msg_delete", handler |-> h, answer |-> answer]
    /\ UNCHANGED <<restrictions, bypass_roles, now, db>>

\* The handler of h wakes and deletes its notice
WarnMsgDelete(h) ==
    IF guild[h].notice = "gone"
    THEN warn_msg_delete(h, "NotFound")
    ELSE \E answer \in WarnDeleteResults : warn_msg_delete(h, answer)

\* A moderator removes a notice that is still in the channel
ModeratorDeletesNotice ==
    \E h \in NoticeHandlers :
        /\ guild[h].notice = "posted"
        /\ manager.tasks[h].pc = "sleeping"
        /\ guild' = [guild EXCEPT ![h].notice = "gone"]
        /\ last' = [op |-> "moderator_delete", handler |-> h]
        /\ UNCHANGED <<restrictions, bypass_roles, now, db, manager>>

\* The ends of the sleeps under way
NoticeWakes ==
    {manager.tasks[h].posted_at[1] + NOTICE_SECONDS :
        h \in {x \in NoticeHandlers : manager.tasks[x].pc = "sleeping"}}

\* The clock's next reading: NoticeStep seconds on, or the end of the next
\* sleep when that comes first
NextReading ==
    IF \E w \in NoticeWakes : w < now + NoticeStep
    THEN CHOOSE w \in NoticeWakes : \A v \in NoticeWakes : w <= v
    ELSE now + NoticeStep

\* Time passes, and no sleep is overslept
NoticeTick ==
    /\ NextReading <= MaxNoticeClock
    /\ \A h \in NoticeHandlers : ~slept(h, NOTICE_SECONDS)
    /\ now' = NextReading
    /\ last' = NoEvent
    /\ UNCHANGED <<restrictions, bypass_roles, db, manager, guild>>

(***************************************************************************)
(*                                                                         *)
(*          Part XI: accruals of one member, await by await                *)
(*                                                                         *)
(* Two accruals of one member, each a message or the end of a voice        *)
(* session, and the resets run side by side.  A handler runs from one      *)
(* suspension to the next in a step: a lookup served from a cache does not *)
(* suspend, a datastore or Discord call does.  manager.tasks holds the     *)
(* handlers' local variables and manager.reset_pc the position of          *)
(* _perform_full_reset; guild counts, since the latest reset, the level-up *)
(* announcements and the role reconciliations per level.                   *)
(***************************************************************************)

Accruals == {"a1", "a2"}

\* The levels a member of the model can reach
AccrualLevels == 1 .. 2

\* The seconds a voice session lasted: 4 XP at 15 XP a minute
VoiceSeconds == {16}

\* The resets looked at
MaxResets == 1

\* The minutes looked at
MaxAccrualMinutes == 1

NewAccrual ==
    [pc |-> "new", kind |-> "none", gain |-> 0, old_level |-> 0,
     updated |-> NewUser, last_notified |-> 0]

\* The handler is over
AccrualDone(st, h) == [st EXCEPT !.manager.tasks[h].pc = "done"]

\* update_user_xp up to `await self.pool.execute(query, ...)`: the values of
\* the UPDATE are computed from the dictionary get_user returns
accrual_compute(st, h, m, kind, old_level, xp_gain, voice_xp_gain) ==
    LET got == get_user(st, m)
        user == got.user
        new_xp == user.xp + xp_gain
    IN  [got.st EXCEPT !.manager.tasks[h] =
            [pc |-> "execute", kind |-> kind, gain |-> xp_gain,
             old_level |-> old_level,
             updated |-> [xp |-> new_xp, level |-> new_xp \div 1000,
                          voice_xp_earned |-> user.voice_xp_earned + voice_xp_gain],
             last_notified |-> 0]]

\* LevelManager.on_message up to the UPDATE: cooldown, settings, amount,
\* old_level
on_message_accrue(h, m, attachments) ==
    LET last_msg == manager.message_cooldowns[m]
        gs == get_guild_settings(Cur, now)
        amount == IF "image" \in attachments THEN gs.settings.xp_per_image
                  ELSE gs.settings.xp_per_message
        got == get_user(gs.st, m)
        cooled == [got.st EXCEPT !.manager.message_cooldowns[m] = Val(now)]
    IN  /\ manager.tasks[h].pc = "new"
        /\ IF last_msg # Null /\ now - last_msg[1] < 60
           THEN Commit(AccrualDone(Cur, h))
           ELSE Commit(accrual_compute(cooled, h, m, "message", got.user.level, amount, 0))
        /\ last' = [op |-> "accrue", handler |-> h, kind |-> "message"]
        /\ UNCHANGED <<restrictions, bypass_roles, now>>

\* LevelManager._award_voice_xp up to the UPDATE: settings, limit, the
\* clamped gain, old_level
award_voice_xp_accrue(h, m, elapsed_seconds) ==
    LET gs == get_guild_settings(Cur, now)
        voice_xp_limit == gs.settings.voice_xp_limit
        got == get_user(gs.st, m)
        user == got.user
        xp_to_add == (elapsed_seconds * gs.settings.xp_per_minute_in_voice) \div 60
        remaining_room == voice_xp_limit - user.voice_xp_earned
        clamped == IF xp_to_add < remaining_room THEN xp_to_add ELSE remaining_room
    IN  /\ manager.tasks[h].pc = "new"
        /\ IF user.voice_xp_earned >= voice_xp_limit \/ xp_to_add <= 0 \/ clamped <= 0
           THEN Commit(AccrualDone(got.st, h))
           ELSE Commit(accrual_compute(got.st, h, m, "voice", user.level, clamped, clamped))
        /\ last' = [op |-> "accrue", handler |-> h, kind |-> "voice"]
        /\ UNCHANGED <<restrictions, bypass_roles, now>>

\* The datastore runs the UPDATE of update_user_xp while the handler is
\* suspended in pool.execute
update_user_xp_execute(h, m) ==
    LET task == manager.tasks[h]
    IN  /\ task.pc = "execute"
        /\ db' = [db EXCEPT !.users[m] = IF @ = Null THEN @ ELSE Val(task.updated)]
        /\ manager' = [manager EXCEPT !.tasks[h].pc = "resume"]
        /\ last' = [op |-> "stored", handler |-> h, gain |-> task.gain,
                    before |-> db.users[m], stored |-> task.updated.xp,
                    resets |-> guild.resets]
        /\ UNCHANGED <<restrictions, bypass_roles, now, guild>>

\* update_user_xp after the await: user.update(...), the cache entry, and
\* back in the handler the comparison of new_level with old_level
update_user_xp_resume(h, m) ==
    LET task == manager.tasks[h]
    IN  /\ task.pc = "resume"
        /\ manager' = [manager EXCEPT
                !.user_cache[m] = Val(task.updated),
                !.tasks[h].pc = IF task.updated.level > task.old_level
                                THEN "level_up" ELSE "done"]
        /\ last' = [op |-> "cached", handler |-> h]
        /\ UNCHANGED <<restrictions, bypass_roles, now, db, guild>>

\* _check_and_handle_level_up up to its guard: the last notified level is
\* fetched and compared
level_up_fetch(h, m) ==
    LET task == manager.tasks[h]
        last_notified == OrZero(db.last_notified_level[m])
    IN  /\ task.pc = "level_up"
        /\ manager' = [manager EXCEPT
                !.tasks[h].last_notified = last_notified,
                !.tasks[h].pc = IF task.updated.level <= last_notified
                                THEN "done" ELSE "handle"]
        /\ last' = [op |-> "level_up_fetch", handler |-> h,
                    new_level |-> task.updated.level,
                    last_notified |-> last_notified,
                    skipped |-> task.updated.level <= last_notified]
        /\ UNCHANGED <<restrictions, bypass_roles, now, db, guild>>

\* _check_and_handle_level_up from upgrade_user_roles to channel.send
level_up_handle(h, m, answer) ==
    LET task == manager.tasks[h]
        new_level == task.updated.level
        up == upgrade_user_roles(Cur, m, new_level, answer)
        posted == db.level_notify_channel # Null /\ answer.send = "ok"
        counted == [up.st EXCEPT
                      !.guild.reconciled[new_level] = @ + 1,
                      !.guild.announced[new_level] = IF posted THEN @ + 1 ELSE @,
                      !.manager.tasks[h].pc = "persist"]
    IN  /\ task.pc = "handle"
        /\ Commit(counted)
        /\ last' = [op |-> "level_up", handler |-> h, new_level |-> new_level,
                    last_notified |-> task.last_notified, posted |-> posted]
        /\ UNCHANGED <<restrictions, bypass_roles, now>>

\* _check_and_handle_level_up: the upsert of last_notified_level
level_up_persist(h, m) ==
    LET task == manager.tasks[h]
    IN  /\ task.pc = "persist"
        /\ db' = [db EXCEPT !.last_notified_level[m] = Val(task.updated.level)]
        /\ manager' = [manager EXCEPT !.tasks[h].pc = "done"]
        /\ last' = [op |-> "level_up_persist", handler |-> h]
        /\ UNCHANGED <<restrictions, bypass_roles, now, guild>>

\* A reset starts a new count of announcements and reconciliations
Recount(st) ==
    [st EXCEPT !.guild.resets = @ + 1,
               !.guild.announced = [l \in AccrualLevels |-> 0],
               !.guild.reconciled = [l \in AccrualLevels |-> 0]]

\* _perform_full_reset up to the return of its second UPDATE: roles taken
\* off, users and last_notified_level zeroed, the cache not yet cleared
perform_full_reset_rows ==
    /\ manager.reset_pc = "idle"
    /\ guild.resets < MaxResets
    /\ Commit(Recount([perform_full_reset(Cur, AllOk) EXCEPT
                          !.manager.user_cache = manager.user_cache,
                          !.manager.reset_pc = "clear"]))
    /\ last' = [op |-> "reset_rows", by |-> "l9"]
    /\ UNCHANGED <<restrictions, bypass_roles, now>>

\* _perform_full_reset after its second UPDATE: the guild's entries leave
\* user_cache
perform_full_reset_clear ==
    /\ manager.reset_pc = "clear"
    /\ manager' = [manager EXCEPT !.user_cache = [m \in Members |-> Null],
                                  !.reset_pc = "idle"]
    /\ last' = [op |-> "reset_clear", by |-> "l9"]
    /\ UNCHANGED <<restrictions, bypass_roles, now, db, guild>>

\* The dashboard's reset-xp: one transaction of the Flask process, which
\* has no access to the bot's user_cache
manual_reset_xp_rows ==
    /\ manager.reset_pc = "idle"
    /\ guild.resets < MaxResets
    /\ Commit(Recount([perform_full_reset(Cur, AllOk) EXCEPT
                          !.manager.user_cache = manager.user_cache]))
    /\ last' = [op |-> "reset_rows", by |-> "dashboard"]
    /\ UNCHANGED <<restrictions, bypass_roles, now>>

\* A minute passes
AccrualTick ==
    /\ now + 60 <= MaxAccrualMinutes * 60
    /\ now' = now + 60
    /\ last' = NoEvent
    /\ UNCHANGED <<restrictions, bypass_roles, db, manager, guild>>

\* A step of one of the accruals
AccrualStep ==
    \E h \in Accruals, m \in Members :
        \/ \E attachments \in {{}, {"image"}} : on_message_accrue(h, m, attachments)
        \/ \E elapsed_seconds \in VoiceSeconds : award_voice_xp_accrue(h, m, elapsed_seconds)
        \/ update_user_xp_execute(h, m)
        \/ update_user_xp_resume(h, m)
        \/ level_up_fetch(h, m)
        \/ \E answer \in {AllOk} : level_up_handle(h, m, answer)
        \/ level_up_persist(h, m)


(***************************************************************************)
(*        Part XII: setting up a YouTube config while the poll runs        *)
(*                                                                         *)
(* The setup (slash command or dashboard) and a cycle of check_for_videos  *)
(* are followed statement by statement: the config row, the seed log rows, *)
(* the cycle's read of the configs, of a feed, of a log row, its send and  *)
(* its log write.  A video is uploaded once while all this goes on.        *)
(***************************************************************************)

\* The video uploaded later
Upload == [video_id |-> "v3", published_at |-> 0]

SeedVideos == Videos \cup {Upload.video_id}

\* The cycles of the poll that are followed
MaxSeedPolls == 1

VideoIds(feed) == {feed[i].video_id : i \in 1 .. Len(feed)}

\* INSERT INTO youtube_notification_logs ... ON CONFLICT DO NOTHING
insert_log(logs, g, v, video_status) ==
    IF logs[g][v] # Null THEN logs
    ELSE [logs EXCEPT ![g][v] = Val(video_status)]

\* The status the seeding gives an entry: 60 minute threshold
seed_status(entry, t) ==
    IF t - entry.published_at > 3600 THEN "none" ELSE "seeded"

\* /y2-setup-youtube-notifications up to the INSERT of the config: the feed
\* was fetched to verify the channel, no config existed, the row is inserted
\* enabled; the followup message is awaited next
setup_notifications_config(g) ==
    /\ manager.setups[g].pc = "new"
    /\ db.youtube_notification_config[g] = Null
    /\ db' = [db EXCEPT !.youtube_notification_config[g] =
                 Val([is_enabled |-> TRUE])]
    /\ manager' = [manager EXCEPT !.setups[g] =
                      [pc |-> "seeding", todo |-> guild.feed]]
    /\ guild' = [guild EXCEPT !.present[g] = VideoIds(guild.feed)]
    /\ last' = [op |-> "setup_config", guild_id |-> g, via |-> "slash"]
    /\ UNCHANGED <<restrictions, bypass_roles, now>>

\* `for entry in feed.entries[:15]` of the slash command, one entry: the
\* row is looked up and, if absent, inserted with ON CONFLICT DO NOTHING
setup_notifications_seed(g) ==
    LET todo == manager.setups[g].todo
        entry == Head(todo)
    IN  /\ manager.setups[g].pc = "seeding"
        /\ IF todo = <<>>
           THEN /\ manager' = [manager EXCEPT !.setups[g].pc = "done"]
                /\ db' = db
           ELSE /\ manager' = [manager EXCEPT !.setups[g].todo = Tail(todo)]
                /\ db' = [db EXCEPT !.youtube_notification_logs =
                             insert_log(@, g, entry.video_id,
                                        seed_status(entry, now))]
        /\ last' = [op |-> "setup_seed", guild_id |-> g]
        /\ UNCHANGED <<restrictions, bypass_roles, now, guild>>

\* save_youtube_config (dashboard) up to conn.commit() of the upsert
save_youtube_config_commit(g) ==
    /\ manager.setups[g].pc = "new"
    /\ db.youtube_notification_config[g] = Null
    /\ db' = [db EXCEPT !.youtube_notification_config[g] =
                 Val([is_enabled |-> TRUE])]
    /\ manager' = [manager EXCEPT !.setups[g] =
                      [pc |-> "dashboard", todo |-> <<>>]]
    /\ guild' = [guild EXCEPT !.present[g] = VideoIds(guild.feed)]
    /\ last' = [op |-> "setup_config", guild_id |-> g, via |-> "dashboard"]
    /\ UNCHANGED <<restrictions, bypass_roles, now>>

RECURSIVE seed_entries(_, _, _, _)
seed_entries(logs, g, entries, t) ==
    IF entries = <<>> THEN logs
    ELSE seed_entries(
             insert_log(logs, g, Head(entries).video_id,
                        seed_status(Head(entries), t)),
             g, Tail(entries), t)

\* seed_youtube_videos of the dashboard: the feed is requested now; its
\* entries are inserted in one transaction; a feed that cannot be fetched
\* seeds nothing
seed_youtube_videos_commit(g, rss) ==
    /\ manager.setups[g].pc = "dashboard"
    /\ manager' = [manager EXCEPT !.setups[g].pc = "done"]
    /\ db' = IF rss = "ok"
             THEN [db EXCEPT !.youtube_notification_logs =
                      seed_entries(@, g, guild.feed, now)]
             ELSE db
    /\ last' = [op |-> "dashboard_seed", guild_id |-> g, rss |-> rss]
    /\ UNCHANGED <<restrictions, bypass_roles, now, guild>>

SeedYoutubeVideos ==
    \E g \in YtGuilds, rss \in {"ok", "error"} : seed_youtube_videos_commit(g, rss)

\* check_for_videos: SELECT of the enabled configs
check_for_videos_configs ==
    LET enabled(g) == /\ db.youtube_notification_config[g] # Null
                      /\ db.youtube_notification_config[g][1].is_enabled
        configs == SelectSeq(ConfigOrder, enabled)
    IN  /\ manager.poll.pc = "idle"
        /\ manager.poll.cycles < MaxSeedPolls
        /\ manager' = [manager EXCEPT !.poll =
                          [pc |-> IF configs = <<>> THEN "idle" ELSE "config",
                           configs |-> configs, todo |-> <<>>,
                           cycles |-> @.cycles + 1]]
        /\ last' = [op |-> "poll_configs"]
        /\ UNCHANGED <<restrictions, bypass_roles, now, db, guild>>

\* `for config in configs`: fetch_rss_feed of the next config
check_for_videos_feed ==
    /\ manager.poll.pc = "config"
    /\ manager' = IF manager.poll.configs = <<>>
                  THEN [manager EXCEPT !.poll.pc = "idle"]
                  ELSE [manager EXCEPT !.poll.pc = "entry",
                                       !.poll.todo = guild.feed]
    /\ last' = [op |-> "poll_feed"]
    /\ UNCHANGED <<restrictions, bypass_roles, now, db, guild>>

\* `for entry in feed.entries`: the lookup of the entry's log row
check_for_videos_exists ==
    LET poll == manager.poll
        g == Head(poll.configs)
        entry == Head(poll.todo)
        log_exists == db.youtube_notification_logs[g][entry.video_id] # Null
    IN  /\ poll.pc = "entry"
        /\ manager' =
             IF poll.todo = <<>>
             THEN [manager EXCEPT !.poll.pc = "config",
                                  !.poll.configs = Tail(@)]
             ELSE IF log_exists
             THEN [manager EXCEPT !.poll.todo = Tail(@)]
             ELSE IF now - entry.published_at > 3600
             THEN [manager EXCEPT !.poll.pc = "log_none"]
             ELSE [manager EXCEPT !.poll.pc = "send"]
        /\ last' = [op |-> "poll_exists"]
        /\ UNCHANGED <<restrictions, bypass_roles, now, db, guild>>

\* `await self.send_notification(config, video_info)`: a refused send is
\* logged and the cycle goes on
check_for_videos_send(answer) ==
    LET g == Head(manager.poll.configs)
        v == Head(manager.poll.todo).video_id
    IN  /\ manager.poll.pc = "send"
        /\ manager' = [manager EXCEPT !.poll.pc = "log_notified"]
        /\ guild' = IF answer = "ok"
                    THEN [guild EXCEPT !.sent[g][v] = @ + 1] ELSE guild
        /\ last' = [op |-> "poll_send", guild_id |-> g, video_id |-> v,
                    answer |-> answer]
        /\ UNCHANGED <<restrictions, bypass_roles, now, db>>

CheckForVideosSend ==
    \E answer \in {"ok", "Forbidden"} : check_for_videos_send(answer)

\* The INSERT of the entry's log row, status none or notified
check_for_videos_log ==
    LET g == Head(manager.poll.configs)
        v == Head(manager.poll.todo).video_id
    IN  /\ manager.poll.pc \in {"log_none", "log_notified"}
        /\ db' = [db EXCEPT !.youtube_notification_logs =
                     insert_log(@, g, v, IF manager.poll.pc = "log_none"
                                         THEN "none" ELSE "notified")]
        /\ manager' = [manager EXCEPT !.poll.pc = "entry",
                                      !.poll.todo = Tail(@)]
        /\ last' = [op |-> "poll_log", guild_id |-> g, video_id |-> v]
        /\ UNCHANGED <<restrictions, bypass_roles, now, guild>>

\* The channel publishes a video
VideoUploaded ==
    /\ Upload.video_id \notin VideoIds(guild.feed)
    /\ guild' = [guild EXCEPT !.feed = <<Upload>> \o @]
    /\ last' = [op |-> "upload"]
    /\ UNCHANGED <<restrictions, bypass_roles, now, db, manager>>


(***************************************************************************)
(*        Part XIII: creating a restriction, statement by statement        *)
(*                                                                         *)
(* Two creates (slash commands or dashboard calls) for the same channel:   *)
(* each reads whether the channel has a row and inserts one if it saw      *)
(* none.                                                                   *)
(***************************************************************************)

Creates == {"k1", "k2"}

\* The row each way of creating writes: the slash commands a type only, the
\* dashboard a type and both masks
CreateRows ==
    [n1 |-> [rtype |-> "media_only", allowed |-> Null, blocked |-> Null,
             redirect |-> RedirectChannel],
     n6 |-> [rtype |-> "block_invites", allowed |-> Null, blocked |-> Null,
             redirect |-> None],
     n7 |-> [rtype |-> "block_all_links", allowed |-> Null, blocked |-> Null,
             redirect |-> None],
     n10 |-> [rtype |-> "text_only", allowed |-> Null, blocked |-> Null,
              redirect |-> RedirectChannel],
     dashboard |-> [rtype |-> "block_invites", allowed |-> Val(0),
                    blocked |-> Val(IMAGE_ATTACHMENTS), redirect |-> None]]

CreateNames == DOMAIN CreateRows

\* INSERT INTO channel_restrictions_v2 (...) VALUES (...): the statement
\* names no conflict target, the row gets the next id
insert_restriction(rows, channel, values) ==
    rows \cup {[id |-> CHOOSE i \in 1 .. (Cardinality(rows) + 1) :
                           \A r \in rows : r.id # i,
                channel |-> channel] @@ values}

\* "Check if channel already has a restriction": the SELECT and the answer
\* to a channel that has one
create_select(k, name, channel) ==
    LET existing == RowsOf(channel) # {}
    IN  /\ manager.creates[k].pc = "new"
        /\ manager' = [manager EXCEPT !.creates[k] =
                          [pc |-> IF existing THEN "done" ELSE "insert",
                           name |-> name, channel |-> channel,
                           result |-> IF existing THEN "exists" ELSE "none"]]
        /\ last' = [op |-> "create_select", create |-> k, existing |-> existing]
        /\ UNCHANGED <<restrictions, bypass_roles, now, db, guild>>

CreateSelect ==
    \E k \in Creates, name \in CreateNames, channel \in Channels :
        create_select(k, name, channel)

\* The INSERT of the create and its answer
create_insert(k) ==
    LET create == manager.creates[k]
    IN  /\ create.pc = "insert"
        /\ restrictions' = insert_restriction(restrictions, create.channel,
                                              CreateRows[create.name])
        /\ manager' = [manager EXCEPT !.creates[k].pc = "done",
                                      !.creates[k].result = "created"]
        /\ last' = [op |-> "create_insert", create |-> k,
                    before |-> RowsOf(create.channel)]
        /\ UNCHANGED <<bypass_roles, now, db, guild>>


(***************************************************************************)
(*              Part XIV: the periodic loops and exceptions                *)
(*                                                                         *)
(* Each loop is a discord.ext.tasks loop.  An iteration is seen as a       *)
(* whole: nothing fails in it, or a call fails at the loop's first         *)
(* datastore read ("fetch") or while an item (a guild, a config, a         *)
(* reminder) is processed ("item").  What is kept per loop: whether it     *)
(* still runs, the parity of its iterations, whether a call failed in the  *)
(* last one.                                                               *)
(***************************************************************************)

\* Where a call of an iteration can fail; update_time_channels reads its
\* configs from memory
FaultPlaces(loop) ==
    IF loop = "update_time_channels" THEN {"none", "item"}
    ELSE {"none", "fetch", "item"}

\* The exceptions: of the datastore driver or the Discord client, and of
\* the network
Exceptions == {"PostgresError", "HTTPException", "OSError"}

\* The except clauses of the loop bodies: check_reminders_task wraps its
\* whole body, check_for_videos and update_time_channels the processing of
\* one config or guild, check_and_run_auto_reset nothing
handled(loop, at) ==
    CASE loop = "check_reminders_task" -> TRUE
      [] loop = "check_for_videos"     -> at = "item"
      [] loop = "update_time_channels" -> at = "item"
      [] loop = "reset_loop"           -> FALSE

\* The exceptions tasks.loop answers by running the body again after a
\* backoff; any other exception ends the loop's task
valid_exception(exc) == exc = "OSError"

\* One iteration of a loop under @tasks.loop
loop_iteration(loop, at, exc) ==
    LET raised == at # "none"
        escaped == raised /\ ~handled(loop, at)
        stops == escaped /\ ~valid_exception(exc)
    IN  /\ manager.loops[loop].running
        /\ manager' = [manager EXCEPT !.loops[loop] =
                          [running |-> ~stops,
                           parity |-> 1 - @.parity,
                           failed |-> raised]]
        /\ last' = [op |-> "iteration", loop |-> loop, at |-> at,
                    exc |-> IF raised THEN exc ELSE "none",
                    escaped |-> escaped]
        /\ UNCHANGED <<restrictions, bypass_roles, now, db, guild>>

LoopIteration(loop) ==
    \E at \in FaultPlaces(loop), exc \in Exceptions : loop_iteration(loop, at, exc)


(***************************************************************************)
(*                             Specifications                              *)
(***************************************************************************)

\* The users rows a restarted bot can find: none, and rows earlier runs left
InitUsers ==
    { Null,
      Val([xp |-> 998, level |-> 0, voice_xp_earned |-> 0]),
      Val([xp |-> 1995, level |-> 1, voice_xp_earned |-> 1490]) }

\* The rewards and the notify channel /l3-setup-level-reward and
\* /l5-notify-level-msg have configured before: nothing, or two rewards and
\* a channel
RewardInputs == {[level |-> 1, role_id |-> "r1"], [level |-> 2, role_id |-> "r2"]}

LevelConfigs ==
    { [level_roles |-> {}, level_notify_channel |-> Null],
      [level_roles |-> RewardInputs, level_notify_channel |-> Val(NotifyChannel)] }

InitDb(row, config) ==
    [guild_settings |-> Null,
     users |-> [m \in Members |-> row],
     last_notified_level |->
        [m \in Members |-> IF row = Null \/ row[1].level = 0 THEN Null
                           ELSE Val(row[1].level)],
     level_roles |-> config.level_roles,
     level_notify_channel |-> config.level_notify_channel]

InitManager ==
    [voice_sessions |-> [m \in Members |-> Null],
     user_cache |-> [m \in Members |-> Null],
     message_cooldowns |-> [m \in Members |-> Null],
     settings_cache |-> Null]

\* role_ids: the roles the guild has; roles: the ones each member holds
InitGuild(v) ==
    [role_ids |-> RewardRoles \cup {OtherRole},
     roles |-> [m \in Members |-> {}], voice |-> [m \in Members |-> v]]

\* ---- the restriction subsystem ------------------------------------------
InitRestrict ==
    /\ restrictions = {}
    /\ bypass_roles = {}
    /\ last = NoEvent
    /\ now = 0
    /\ db = InitDb(Null, CHOOSE c \in LevelConfigs : c.level_roles = {})
    /\ manager = InitManager
    /\ guild = InitGuild("out")

Init == InitRestrict

NextRestrict ==
    \/ OnMessage
    \/ setup_no_text
    \/ no_discord_link
    \/ no_links
    \/ setup_text_only
    \/ remove_no_text
    \/ remove_no_discord_link
    \/ remove_no_links
    \/ remove_text_only
    \/ bypass_no_text
    \/ remove_bypass_role
    \/ CreateRestriction
    \/ UpdateRestriction
    \/ DeleteRestriction
    \/ Return

SpecRestrict == Init /\ [][NextRestrict]_vars

\* ---- the levelling subsystem --------------------------------------------
InitLevel ==
    /\ restrictions = {}
    /\ bypass_roles = {}
    /\ last = NoEvent
    /\ now = 0
    /\ \E row \in InitUsers, config \in LevelConfigs : db = InitDb(row, config)
    /\ manager = InitManager
    /\ \E v \in {"out", "active"} : guild = InitGuild(v)

NextLevel ==
    \/ LevelOnMessage
    \/ OnVoiceStateUpdate
    \/ UpdateServerSettings
    \/ reset_xp
    \/ ManualResetXp
    \/ Tick
    \/ Return

SpecLevel == InitLevel /\ [][NextLevel]_vars

\* ---- reward roles: /l3, /l10 and roles deleted in Discord ----------------
\* The users rows and the roles a member holds when the commands are first
\* used: any level up to one above the highest reward level, any roles
SyncLevels == 0 .. MaxRewardLevel + 1

SyncUsers ==
    {Null} \cup {Val([xp |-> l * 1000, level |-> l, voice_xp_earned |-> 0]) :
                    l \in SyncLevels}

InitRoles ==
    /\ restrictions = {}
    /\ bypass_roles = {}
    /\ last = NoEvent
    /\ now = 0
    /\ \E row \in SyncUsers :
         db = InitDb(row, CHOOSE c \in LevelConfigs : c.level_roles = {})
    /\ manager = InitManager
    /\ \E held \in SUBSET (RewardRoles \cup {OtherRole}) :
         guild = [InitGuild("out") EXCEPT !.roles = [m \in Members |-> held]]

NextRoles ==
    \/ SetupLevelReward
    \/ RoleDeleted
    \/ UpgradeAllRoles
    \/ Return

SpecRoles == InitRoles /\ [][NextRoles]_vars

\* ---- YouTube notifications ----------------------------------------------
\* Each guild has no config, an enabled or a disabled one; nothing logged,
\* nothing sent
YtConfigRows == {Null, Val([is_enabled |-> TRUE]), Val([is_enabled |-> FALSE])}

InitYouTube ==
    /\ restrictions = {}
    /\ bypass_roles = {}
    /\ last = NoEvent
    /\ now = 0
    /\ \E rows \in [YtGuilds -> YtConfigRows] :
         db = [youtube_notification_config |-> rows,
               youtube_notification_logs |->
                   [g \in YtGuilds |-> [v \in Videos |-> Null]]]
    /\ manager = InitManager
    /\ guild = [sent |-> [g \in YtGuilds |-> [v \in Videos |-> 0]]]

NextYouTube ==
    \/ CheckForVideos
    \/ SetupNotifications
    \/ DisableNotifications
    \/ Return

SpecYouTube == InitYouTube /\ [][NextYouTube]_vars

\* ---- reminders -----------------------------------------------------------
\* The reminders /r1-create has stored: both due, with an interval that
\* _validate_interval accepts
CreatedIntervals ==
    { Once, <<"0", "m">>, <<"1", "m">>, <<"1", "h">>, <<"2", "d">>,
      <<"5", "0", "0", "0", "0", "0", "0", "d">> }

InitReminders ==
    /\ restrictions = {}
    /\ bypass_roles = {}
    /\ last = NoEvent
    /\ now = 0
    /\ \E first \in CreatedIntervals, second \in {Once, <<"1", "m">>} :
         db = [reminders |-> [id \in ReminderIds |->
                  IF id = "R1" THEN NewReminder(0, first)
                  ELSE NewReminder(0, second)]]
    /\ manager = IdleLoop
    /\ guild = [interactions |-> 0]

NextReminders ==
    \/ CheckReminders
    \/ SendReminderSend
    \/ SendReminderUpdate
    \/ EndOfCycle
    \/ PauseReminder
    \/ DeleteReminder
    \/ EditReminder

SpecReminders == InitReminders /\ [][NextReminders]_vars

\* ---- concurrently handled messages ---------------------------------------
InitOnMessage ==
    /\ restrictions = {}
    /\ bypass_roles = {}
    /\ last = NoEvent
    /\ now = 0
    /\ \E row \in {Null, Val([xp |-> 998, level |-> 0, voice_xp_earned |-> 0])} :
         db = InitDb(row, CHOOSE c \in LevelConfigs : c.level_roles = {})
    /\ manager = [voice_sessions |-> InitManager.voice_sessions,
                  user_cache |-> InitManager.user_cache,
                  message_cooldowns |-> InitManager.message_cooldowns,
                  settings_cache |-> InitManager.settings_cache,
                  tasks |-> [h \in Handlers |-> NewTask]]
    /\ guild = InitGuild("out")

NextOnMessage ==
    \/ OnMessageStep
    \/ cleanup_cooldowns
    \/ CooldownTick

SpecOnMessage == InitOnMessage /\ [][NextOnMessage]_vars

\* ---- the auto-reset loop ------------------------------------------------
\* The rows earlier /l6 commands left: none for a guild, or one that was
\* written at hour 0
AutoResetRows == {Null} \cup {Val([days |-> d, last_reset |-> 0]) : d \in ResetDays}

InitAutoReset ==
    /\ restrictions = {}
    /\ bypass_roles = {}
    /\ now = 0
    /\ db \in {[auto_reset |-> t] : t \in [ArGuilds -> AutoResetRows]}
    /\ manager = IdleResetLoop
    /\ guild = [interactions |-> 0, reset_at |-> [g \in ArGuilds |-> Null]]
    /\ last = NoEvent

NextAutoReset ==
    \/ CheckAndRunAutoReset
    \/ AutoResetRow
    \/ AutoResetDone
    \/ ResetLoopTick
    \/ SetAutoReset
    \/ StopAutoReset

SpecAutoReset == InitAutoReset /\ [][NextAutoReset]_vars

\* ---- the start of the loops ---------------------------------------------
\* The clock when the bot is ready: on and around the marks of the periods
StartTimes == {0, 1, 59, 60, 61, 599, 600, 601, 899, 900, 1800, 3540, 3599}

InitStartup ==
    /\ restrictions = {}
    /\ bypass_roles = {}
    /\ now \in StartTimes
    /\ db = [none |-> Null]
    /\ manager = [l \in Loops |-> ReadyLoop]
    /\ guild = [started |-> now]
    /\ last = NoEvent

NextStartup ==
    \/ before_update_time_channels
    \/ before_check_for_videos
    \/ before_check_reminders
    \/ before_reset_loop
    \/ FirstIteration
    \/ StartupTick

SpecStartup == InitStartup /\ [][NextStartup]_vars

\* ---- the reminder commands ----------------------------------------------
\* No reminder yet, or R1 as an earlier /r1-create left it
InitReminderCommands ==
    /\ restrictions = {}
    /\ bypass_roles = {}
    /\ now = 0
    /\ db \in { [reminders |-> <<>>],
                [reminders |-> ("R1" :> NewReminder(0, Once))] }
    /\ manager = IdleLoop
    /\ guild = [interactions |-> 0]
    /\ last = NoEvent

NextReminderCommands ==
    \/ CreateReminder
    \/ EditReminderFields
    \/ CommandTick

SpecReminderCommands == InitReminderCommands /\ [][NextReminderCommands]_vars

\* ---- the dashboard's access check ---------------------------------------
\* u1 is recorded for the guild and u2 is not; a member has earned XP and a
\* reward role
InitAccess ==
    /\ restrictions = {}
    /\ bypass_roles = {}
    /\ now = 0
    /\ db = InitDb(Val([xp |-> 1995, level |-> 1, voice_xp_earned |-> 1490]),
                   [level_roles |-> RewardInputs, level_notify_channel |-> Null])
              @@ [dashboard_user_servers |-> {"u1"}]
    /\ manager = InitManager @@ [current_user |-> Null]
    /\ guild = [InitGuild("out") EXCEPT !.roles = [m \in Members |-> {"r1"}]]
    /\ last = NoEvent

NextAccess ==
    \/ Login
    \/ SessionCreateRestriction
    \/ SessionUpdateRestriction
    \/ SessionDeleteRestriction
    \/ SessionUpdateSettings
    \/ SessionResetXp
    \/ Return

SpecAccess == InitAccess /\ [][NextAccess]_vars

\* ---- the classifier on its own -------------------------------------------
\* The messages handed to detect_content_types: up to MaxContentTokens tokens
\* in any order, with and without attachments and embeds
MaxContentTokens == 3

ClassifiedMessages ==
    [content : UNION {[1 .. n -> Tokens] : n \in 0 .. MaxContentTokens},
     attachments : SUBSET AttachmentKinds, embeds : BOOLEAN]

InitClassifier ==
    /\ restrictions = {}
    /\ bypass_roles = {}
    /\ now = 0
    /\ db = [none |-> Null]
    /\ manager = [none |-> Null]
    /\ guild \in [message : ClassifiedMessages]
    /\ last = NoEvent

\* detected = self.detect_content_types(message)
Classify ==
    /\ last = NoEvent
    /\ last' = [op |-> "classify", message |-> guild.message,
                detected |-> detect_content_types(guild.message)]
    /\ UNCHANGED <<restrictions, bypass_roles, levelVars>>

NextClassifier == Classify

SpecClassifier == InitClassifier /\ [][NextClassifier]_vars

\* ---- the settings cache -------------------------------------------------
\* A guild that has no settings row, no users row and no rewards yet
InitSettings ==
    /\ restrictions = {}
    /\ bypass_roles = {}
    /\ last = NoEvent
    /\ now = 0
    /\ db = InitDb(Null, [level_roles |-> {}, level_notify_channel |-> Null])
    /\ manager = InitManager
    /\ guild = InitGuild("out")

NextSettings ==
    \/ LevelOnMessage
    \/ SaveSettings
    \/ Tick
    \/ Return

SpecSettings == InitSettings /\ [][NextSettings]_vars


\* The dashboard's requests against its connection pool, served one after
\* another from a pool with nothing checked out
InitPool ==
    /\ restrictions = {}
    /\ bypass_roles = {}
    /\ now = 0
    /\ db = [checked_out |-> 0]
    /\ manager = [none |-> Null]
    /\ guild = [none |-> Null]
    /\ last = NoEvent

\* One request at a time
NextPool ==
    \/ CreateChannelRestrictionV2
    \/ SaveYoutubeConfig

\* The pool under the dashboard's requests
SpecPool == InitPool /\ [][NextPool]_vars


\* ---- the redirect notice ---------------------------------------------------
\* A channel that blocks plain text, with or without a redirect channel
InitNotice ==
    /\ \E redirect \in {None, RedirectChannel} :
         restrictions = {[id |-> 1, channel |-> "c1", rtype |-> None,
                          allowed |-> Null, blocked |-> Val(PLAIN_TEXT),
                          redirect |-> redirect]}
    /\ bypass_roles = {}
    /\ now = 0
    /\ db = [none |-> Null]
    /\ manager = [tasks |-> [h \in NoticeHandlers |-> NewNoticeTask]]
    /\ guild = [h \in NoticeHandlers |-> NothingSeen]
    /\ last = NoEvent

NextNotice ==
    \/ OnMessageEnforce
    \/ \E h \in NoticeHandlers : WarnMsgDelete(h)
    \/ ModeratorDeletesNotice
    \/ NoticeTick

\* The handlers and the clock
SpecNotice == InitNotice /\ [][NextNotice]_vars

\* The same when the event loop runs every handler whose sleep is over and
\* time does not stop
SpecNoticeLive ==
    /\ SpecNotice
    /\ WF_vars(NoticeTick)
    /\ \A h \in NoticeHandlers : WF_vars(WarnMsgDelete(h))


\* ---- accruals await by await ----------------------------------------------
\* A member 2 or 10 XP short of level 1, with reward roles and a notify
\* channel, both caches cold
InitAccrual ==
    /\ restrictions = {}
    /\ bypass_roles = {}
    /\ now = 0
    /\ last = NoEvent
    /\ \E xp \in {990, 998} :
        /\ db = InitDb(Val([xp |-> xp, level |-> 0, voice_xp_earned |-> 0]),
                       [level_roles |-> RewardInputs,
                        level_notify_channel |-> Val(NotifyChannel)])
        /\ guild = InitGuild("out") @@
                     [resets |-> 0, start_xp |-> xp,
                      announced |-> [l \in AccrualLevels |-> 0],
                      reconciled |-> [l \in AccrualLevels |-> 0]]
    /\ manager = InitManager @@
                   [tasks |-> [h \in Accruals |-> NewAccrual], reset_pc |-> "idle"]

NextAccrual ==
    \/ AccrualStep
    \/ perform_full_reset_rows
    \/ perform_full_reset_clear
    \/ manual_reset_xp_rows
    \/ AccrualTick

\* The accruals, the resets and the clock
SpecAccrual == InitAccrual /\ [][NextAccrual]_vars


\* ---- YouTube setup and poll, statement by statement ----------------------
\* No guild has a config; the feed holds two videos of half an hour ago
InitSeeding ==
    /\ restrictions = {}
    /\ bypass_roles = {}
    /\ now = 0
    /\ last = NoEvent
    /\ db = [youtube_notification_config |-> [g \in YtGuilds |-> Null],
             youtube_notification_logs |->
                 [g \in YtGuilds |-> [v \in SeedVideos |-> Null]]]
    /\ manager = [setups |-> [g \in YtGuilds |-> [pc |-> "new", todo |-> <<>>]],
                  poll |-> [pc |-> "idle", configs |-> <<>>, todo |-> <<>>,
                            cycles |-> 0]]
    /\ guild = [feed |-> Feed,
                present |-> [g \in YtGuilds |-> {}],
                sent |-> [g \in YtGuilds |-> [v \in SeedVideos |-> 0]]]

NextSeeding ==
    \/ \E g \in YtGuilds : setup_notifications_config(g)
    \/ \E g \in YtGuilds : setup_notifications_seed(g)
    \/ \E g \in YtGuilds : save_youtube_config_commit(g)
    \/ SeedYoutubeVideos
    \/ check_for_videos_configs
    \/ check_for_videos_feed
    \/ check_for_videos_exists
    \/ CheckForVideosSend
    \/ check_for_videos_log
    \/ VideoUploaded

SpecSeeding == InitSeeding /\ [][NextSeeding]_vars


\* ---- creates of a restriction, statement by statement ---------------------
\* No restriction yet, two creates about to run
InitCreates ==
    /\ restrictions = {}
    /\ bypass_roles = {}
    /\ now = 0
    /\ last = NoEvent
    /\ db = InitDb(Null, CHOOSE c \in LevelConfigs : c.level_roles = {})
    /\ guild = InitGuild("out")
    /\ manager = [creates |-> [k \in Creates |->
                     [pc |-> "new", name |-> "n1", channel |-> "c1",
                      result |-> "none"]]]

NextCreates ==
    \/ CreateSelect
    \/ \E k \in Creates : create_insert(k)

SpecCreates == InitCreates /\ [][NextCreates]_vars


\* ---- the periodic loops and exceptions ------------------------------------
\* The four loops have been started
InitLoops ==
    /\ restrictions = {}
    /\ bypass_roles = {}
    /\ now = 0
    /\ last = NoEvent
    /\ db = InitDb(Null, CHOOSE c \in LevelConfigs : c.level_roles = {})
    /\ guild = InitGuild("out")
    /\ manager = [loops |-> [loop \in Loops |->
                     [running |-> TRUE, parity |-> 0, failed |-> FALSE]]]

NextLoops == \E loop \in Loops : LoopIteration(loop)

SpecLoops == InitLoops /\ [][NextLoops]_vars

\* The event loop gives every loop that still runs its next iteration
SpecLoopsLive ==
    SpecLoops /\ \A loop \in Loops : WF_vars(LoopIteration(loop))


(***************************************************************************)
(*                 Properties of the restriction subsystem                 *)
(***************************************************************************)

\* Bit f (a power of two) of the two's complement integer m
HasBit(m, f) == (m \div f) % 2 = 1

\* The content types two masks have in common / that mask has and `other` lacks
Shared(mask, other) == {f \in CONTENT_TYPES : HasBit(mask, f) /\ HasBit(other, f)}
Excess(mask, other) == {f \in CONTENT_TYPES : HasBit(mask, f) /\ ~HasBit(other, f)}

\* Two stored integers have some bit in common (bit 128 stands for every
\* higher bit of the values the model stores, the sign bits included)
SharesBit(a, b) == \E f \in CONTENT_TYPES \cup {128} : HasBit(a, f) /\ HasBit(b, f)

\* The stored mask of a column (NULL counts as 0: nothing configured)
MaskOf(column) == IF column = Null THEN 0 ELSE column[1]

IsMessage == last.op = "message"

\* The author bypasses restrictions: a bot, an administrator, or a holder of
\* one of the guild's bypass roles
Bypassing(sender) ==
    \/ sender.bot
    \/ sender.administrator
    \/ sender.roles \cap bypass_roles # {}

\* A guild message of a non-bot, non-bypassing author, in a channel that has
\* a stored restriction
Policed ==
    /\ IsMessage
    /\ last.sender.guild
    /\ ~Bypassing(last.sender)
    /\ RowsOf(last.channel) # {}

\* The handler called message.delete(); `delete` holds Discord's answer
DeleteIssued == last.delete # "none"

LeftAlone == last.delete = "none" /\ last.notice = "none"

\* The mask the classifier gives the handled message
Mask == detect_content_types(last.message)

EmptyMessage(m) == m.content = <<>> /\ m.attachments = {} /\ ~m.embeds

\* C1 (blocklist precedence): a policed message whose mask shares a content
\* type with the channel's blocked mask is deleted, and the reported content
\* types are exactly those of mask & blocked_mask, whatever the allowed mask is.
C1_BlocklistPrecedence ==
    Policed =>
        \A config \in RowsOf(last.channel) :
            Shared(Mask, MaskOf(config.blocked)) # {} =>
                /\ DeleteIssued
                /\ last.reported = Shared(Mask, MaskOf(config.blocked))

\* C1 witness: a deleted message one of whose blocked content types is also in
\* the allowed mask, together with content that is neither allowed nor blocked
C1_Witness ==
    /\ Policed
    /\ last.delete = "deleted"
    /\ \E config \in RowsOf(last.channel) :
         /\ MaskOf(config.allowed) > 0
         /\ Shared(Mask, MaskOf(config.blocked)) # {}
         /\ Excess(Mask, MaskOf(config.allowed)) \
                Shared(Mask, MaskOf(config.blocked)) # {}

\* C2 (allowlist exclusivity, as claimed): a policed message with a non-zero
\* mask that shares nothing with the blocked mask is deleted with reason
\* mask & ~allowed_mask whenever allowed_mask # 0 and the mask has a content
\* type outside allowed_mask.
C2_AllowlistExclusive ==
    Policed =>
        \A config \in RowsOf(last.channel) :
            ( /\ Mask # 0
              /\ Shared(Mask, MaskOf(config.blocked)) = {}
              /\ MaskOf(config.allowed) # 0
              /\ Excess(Mask, MaskOf(config.allowed)) # {} ) =>
                /\ DeleteIssued
                /\ last.reported = Excess(Mask, MaskOf(config.allowed))

\* C3 (empty message): a message without text, attachments and embeds has
\* mask 0, and a message with mask 0 is never deleted and causes no notice,
\* whatever the channel's configuration is.
C3_EmptyNeverDeleted ==
    IsMessage =>
        /\ EmptyMessage(last.message) => Mask = 0
        /\ Mask = 0 => LeftAlone

\* C3 witness: an empty message of a policed author in a channel with an
\* allow-list and a redirect channel
C3_Witness ==
    /\ Policed
    /\ EmptyMessage(last.message)
    /\ last.classified
    /\ \E config \in RowsOf(last.channel) :
         /\ MaskOf(config.allowed) > 0
         /\ config.redirect # None

\* The evaluator's two grounds for a deletion
Violates(mask, config) ==
    \/ Shared(mask, MaskOf(config.blocked)) # {}
    \/ /\ MaskOf(config.allowed) # 0
       /\ Excess(mask, MaskOf(config.allowed)) # {}

\* C4 (no false positives): the handler deletes a message only when its mask
\* shares a type with blocked_mask, or allowed_mask # 0 and the mask has a type
\* outside it; otherwise (also without a restriction row) the message stays
\* and nothing is posted.
C4_NoFalsePositives ==
    IsMessage =>
        \/ \E config \in RowsOf(last.channel) : Violates(Mask, config)
        \/ LeftAlone

\* C4 witness: a non-empty policed message that passes a channel with both
\* an allow-list and a block-list
C4_Witness ==
    /\ Policed
    /\ Mask # 0
    /\ LeftAlone
    /\ \E config \in RowsOf(last.channel) :
         /\ MaskOf(config.allowed) > 0
         /\ MaskOf(config.blocked) > 0

\* C5 (no conflicting masks stored, as claimed): every stored restriction has
\* allowed_mask & blocked_mask = 0, and a create or update whose masks share a
\* bit is answered with an error.
C5_NoConflictStored ==
    /\ \A r \in restrictions : ~SharesBit(MaskOf(r.allowed), MaskOf(r.blocked))
    /\ (last.op \in {"create", "update"} /\ SharesBit(last.allowed, last.blocked))
          => last.status >= 400

\* A row as the slash commands write it: a legacy mode, no granular masks
LegacyOnly(config) == config.allowed = Null /\ config.blocked = Null

\* C6 (legacy modes, as claimed): in a channel whose row carries only a legacy
\* mode, block_invites deletes every policed message with an invite,
\* block_all_links every one with a link, text_only every one carrying media
\* and media_only every text-only one.
C6_LegacyEnforced ==
    Policed =>
        \A config \in RowsOf(last.channel) :
            LegacyOnly(config) =>
                /\ (config.rtype = "block_invites" /\ HasBit(Mask, DISCORD_INVITES))
                      => DeleteIssued
                /\ (config.rtype = "block_all_links"
                        /\ \E f \in {DISCORD_INVITES, IMAGE_LINKS, REGULAR_LINKS} :
                              HasBit(Mask, f))
                      => DeleteIssued
                /\ (config.rtype = "text_only" /\ last.message.attachments # {})
                      => DeleteIssued
                /\ (config.rtype = "media_only" /\ Mask = PLAIN_TEXT)
                      => DeleteIssued

\* C7 (bypass): a message of a bot, an administrator or a holder of a bypass
\* role is never deleted and causes no notice, and the handler returns before
\* it looks up the restriction or classifies the message.
C7_Bypass ==
    (IsMessage /\ Bypassing(last.sender)) =>
        /\ LeftAlone
        /\ ~last.looked_up
        /\ ~last.classified

\* C7 witness: the holder of a bypass role (no administrator, no bot) posts
\* what the channel blocks
C7_Witness ==
    /\ IsMessage
    /\ last.sender.guild /\ ~last.sender.bot /\ ~last.sender.administrator
    /\ last.sender.roles \cap bypass_roles # {}
    /\ \E config \in RowsOf(last.channel) :
         Shared(Mask, MaskOf(config.blocked)) # {}

(***************************************************************************)
(*                  Properties of the levelling subsystem                  *)
(***************************************************************************)

\* level is the floor of xp / 1000
LevelOfXp(user) ==
    /\ user.level * 1000 <= user.xp
    /\ user.xp < (user.level + 1) * 1000

IsAccrual == last.op = "xp" /\ last.awarded

\* The row and the cache entry of the member the last handler was about
StoredUser == db.users[last.member][1]
CachedUser == manager.user_cache[last.member][1]

\* C8 (XP invariant): in every reachable state, for every (guild, user), the
\* stored level is floor(stored xp / 1000) and the cached level is
\* floor(cached xp / 1000), after any message accruals, voice accruals and
\* resets.
C8_XpInvariant ==
    \A m \in Members :
        /\ db.users[m] # Null => LevelOfXp(db.users[m][1])
        /\ manager.user_cache[m] # Null => LevelOfXp(manager.user_cache[m][1])

\* C8 witness: an accrual has just taken the stored and the cached level
\* above the level it found
C8_Witness ==
    /\ IsAccrual
    /\ StoredUser.level > last.before.level
    /\ CachedUser.level > last.before.level
    /\ StoredUser.xp >= 1000

\* The limit the datastore holds for the guild (the default of a guild
\* without a row)
ConfiguredLimit ==
    IF db.guild_settings = Null THEN DefaultSettings.voice_xp_limit
    ELSE db.guild_settings[1].voice_xp_limit

Min(a, b) == IF a < b THEN a ELSE b

IsVoiceAccrual == IsAccrual /\ last.kind = "voice"

\* C9 (voice XP clamp, as claimed): after a voice accrual voice_xp_earned
\* does not exceed the guild's configured voice_xp_limit; an accrual that
\* would exceed it is reduced to the remaining room, and the same amount is
\* added to xp.
C9_VoiceClamp ==
    IsVoiceAccrual =>
        /\ StoredUser.voice_xp_earned <= ConfiguredLimit
        /\ last.gain = Min(last.wanted, ConfiguredLimit - last.before.voice_xp_earned)
        /\ StoredUser.xp = last.before.xp + last.gain

\* A voice handler that got as far as the user's voice XP
ReachedVoiceLimitCheck ==
    /\ last.op = "xp"
    /\ last.kind = "voice"
    /\ last.why \in {"gain", "limit", "nothing", "no_room"}

\* C9 (amended): a voice accrual never raises voice_xp_earned above the
\* voice_xp_limit of the settings get_guild_settings gave it (the configured
\* limit or a cached copy of it less than 300 s old); an accrual that would
\* exceed that limit is reduced to the remaining room, the same amount is
\* added to xp, and a user at or above that limit gains nothing.
C9_VoiceClampPerAccrual ==
    ReachedVoiceLimitCheck =>
        IF last.awarded
        THEN /\ last.gain > 0
             /\ last.gain = Min(last.wanted, last.limit - last.before.voice_xp_earned)
             /\ StoredUser.voice_xp_earned = last.before.voice_xp_earned + last.gain
             /\ StoredUser.voice_xp_earned <= last.limit
             /\ StoredUser.xp = last.before.xp + last.gain
             /\ CachedUser = StoredUser
        ELSE /\ CachedUser = last.before
             /\ last.why = "limit" <=> last.before.voice_xp_earned >= last.limit

\* C9 witness: a voice accrual cut down to the remaining room
C9_Witness ==
    /\ IsVoiceAccrual
    /\ last.gain < last.wanted
    /\ StoredUser.voice_xp_earned = last.limit

\* The accrual took floor(xp / 1000) above the level it found
Raised == (last.before.xp + last.gain) \div 1000 > last.before.level

Synced(m) ==
    /\ last # NoEvent /\ last.op = "sync"
    /\ m \in last.synced /\ m \notin last.forbidden

ConfiguredRewards == {r.role_id : r \in db.level_roles}

\* The rewards whose threshold the level of m reaches, and the one with the
\* highest threshold among them
Reached(m) == {r \in db.level_roles : r.level <= db.users[m][1].level}
TopReward(m) == CHOOSE r \in Reached(m) : \A q \in Reached(m) : q.level <= r.level

OthersKept(m) ==
    guild.roles[m] \ ConfiguredRewards = last.before[m] \ ConfiguredRewards

\* C11 (as stated): after upgrade_user_roles completes without a permission
\* error the member holds the reward role with the highest threshold <= level
\* and no other configured reward role, none if the level is below every
\* threshold, and the roles that are no rewards are unchanged
C11_RoleReconciliation ==
    \A m \in Members : Synced(m) =>
        /\ guild.roles[m] \cap ConfiguredRewards =
              IF Reached(m) = {} THEN {} ELSE {TopReward(m).role_id}
        /\ OthersKept(m)

\* C11 (amended): the same, except that a member whose highest reached
\* reward names a role the guild no longer has holds no configured reward
\* role at all
C11_RoleReconciliationExisting ==
    \A m \in Members : Synced(m) =>
        /\ guild.roles[m] \cap ConfiguredRewards =
              IF Reached(m) = {} THEN {}
              ELSE {TopReward(m).role_id} \cap guild.role_ids
        /\ OthersKept(m)

\* A reconciliation that gave the member the higher reward, took the lower
\* one away and left the other role alone
C11_Witness ==
    \E m \in Members :
        /\ Synced(m)
        /\ Cardinality(ConfiguredRewards) = 2
        /\ Reached(m) # {}
        /\ TopReward(m).role_id \notin last.before[m]
        /\ last.before[m] \cap ConfiguredRewards # {}
        /\ OtherRole \in last.before[m]
        /\ guild.roles[m] = {TopReward(m).role_id, OtherRole}


(***************************************************************************)
(*                   Properties of YouTube notifications                   *)
(***************************************************************************)

\* C12: whatever the number of poll cycles, a (guild, channel, video) causes
\* at most one outbound notification message (and has at most one log entry,
\* which the log's key gives)
C12_NotificationDedup ==
    \A g \in YtGuilds, v \in Videos : guild.sent[g][v] <= 1

\* The entries a poll cycle has just gone through without an exception
Processed ==
    IF last # NoEvent /\ last.op = "poll"
    THEN {item \in last.seen : item.outcome # "raised"} ELSE {}

LogOf(item) == db.youtube_notification_logs[item.guild_id][item.video_id]

\* C13: an unlogged entry older than 60 minutes when a cycle goes through it
\* is logged with status none and nothing is sent for it; one at most 60
\* minutes old has its notification sent and is logged as notified; and an
\* entry logged with status none keeps that status and is never sent
C13_AgeThreshold ==
    /\ [](\A item \in Processed : ~item.logged =>
            IF item.age > 3600
            THEN /\ item.outcome = "none" /\ ~item.delivered
                 /\ LogOf(item) = Val("none")
            ELSE /\ item.outcome = "notified"
                 /\ LogOf(item) = Val("notified"))
    /\ [][\A g \in YtGuilds, v \in Videos :
            db.youtube_notification_logs[g][v] = Val("none") =>
                /\ db.youtube_notification_logs'[g][v] = Val("none")
                /\ guild.sent'[g][v] = guild.sent[g][v]]_vars

\* One cycle that met an entry exactly 60 minutes old and one a second older
C13_Witness ==
    /\ \E item \in Processed :
         /\ ~item.logged /\ item.age = 3600
         /\ item.delivered /\ LogOf(item) = Val("notified")
    /\ \E item \in Processed :
         /\ ~item.logged /\ item.age = 3601
         /\ LogOf(item) = Val("none")


(***************************************************************************)
(*                         Properties of reminders                         *)
(***************************************************************************)

\* The loop has just handed a reminder's message to Discord
ReminderSent ==
    last # NoEvent /\ last.op = "reminder_send" /\ last.outcome = "ok"

\* _send_reminder has just ended after a send, the datastore having taken
\* the UPDATE if one was made
ReminderFired ==
    last # NoEvent /\ last.op = "reminder_fired" /\ last.raised # "datastore"

\* C14: a reminder's message is sent only if, at the time it is sent, the
\* stored status is active and the stored next_run is not in the future,
\* whatever commands run between the steps of the check loop
C14_SentOnlyWhenDue ==
    ReminderSent => last.status = "active" /\ last.next_run <= last.at

\* C15: after a reminder with interval once is fired it is completed with
\* run_count one higher; after a recurring one is fired it is still active
\* with run_count one higher and, next_run apart, nothing else changed; and
\* no reminder is sent while its status is completed
C15_AfterFiring ==
    /\ ReminderFired =>
         LET row == db.reminders[last.reminder_id]
             before == last.before
         IN  IF before.interval = Once
             THEN /\ row.status = "completed"
                  /\ row.run_count = before.run_count + 1
             ELSE /\ row.status = "active"
                  /\ row.run_count = before.run_count + 1
                  /\ row.interval = before.interval
                  /\ row.last_run = before.last_run
    /\ ReminderSent => last.status # "completed"

UnitMinutes(unit) == IF unit = "m" THEN 1 ELSE IF unit = "h" THEN 60 ELSE 1440

\* C16: for an interval N followed by m, h or d the next_run stored after a
\* firing is the previous next_run plus exactly N minutes, hours or days;
\* 2d gives two days
C16_IntervalArithmetic ==
    ReminderFired /\ MatchesInterval(last.before.interval) =>
        LET interval == last.before.interval
            step == db.reminders[last.reminder_id].next_run - last.before.next_run
            unit == UnitMinutes(interval[Len(interval)])
        IN  /\ step % unit = 0
            /\ step \div unit = ToInt(SubSeq(interval, 1, Len(interval) - 1))
            /\ interval = <<"2", "d">> => step = 2 * 24 * 60


(***************************************************************************)
(*               Properties of concurrently handled messages               *)
(***************************************************************************)

\* The messages that were given XP, and those turned away (by the cooldown
\* or as a bot's)
Awarded == {h \in Handlers : manager.tasks[h].awarded}
TurnedAway(h) ==
    /\ manager.tasks[h].pc = "new"
    /\ manager'.tasks[h].pc = "done"

\* C17: two messages of a member that are given XP arrived at least 60
\* seconds apart, however the handlers interleave; and a message turned
\* away changes neither the user's XP (row and cache) nor the cooldown
C17_Cooldown ==
    /\ [](\A a \in Awarded, b \in Awarded :
            a # b => \/ manager.tasks[a].arrived - manager.tasks[b].arrived >= 60
                     \/ manager.tasks[b].arrived - manager.tasks[a].arrived >= 60)
    /\ [][\A h \in Handlers : TurnedAway(h) =>
            /\ db' = db
            /\ manager'.user_cache = manager.user_cache
            /\ manager'.message_cooldowns = manager.message_cooldowns]_vars

\* Two messages exactly 60 seconds apart were given XP and one that arrived
\* between them, while the first was still being handled, was turned away
C17_Witness ==
    \E a \in Awarded, b \in Awarded, c \in Handlers \ Awarded :
        /\ manager.tasks[b].arrived = manager.tasks[a].arrived + 60
        /\ manager.tasks[c].pc = "done"
        /\ manager.tasks[c].arrived = manager.tasks[a].arrived + 30


(***************************************************************************)
(*                     Properties of resets                                *)
(***************************************************************************)

\* A reset (/l9 of the bot, or the dashboard's) has just completed
ResetCompleted == last # NoEvent /\ last.op = "reset" /\ last.status = 200

\* C18: when a reset of the guild completes every users row still exists
\* with xp, level and voice_xp_earned 0, every last-notified level is 0 and
\* the bot's cache holds no entry with xp other than 0
C18_FullReset ==
    ResetCompleted =>
        \A m \in Members :
            /\ db.users[m] \in {Null, Val(NewUser)}
            /\ db.last_notified_level[m] \in {Null, Val(0)}
            /\ manager.user_cache[m] # Null => manager.user_cache[m][1].xp = 0

(***************************************************************************)
(*                    Properties of the periodic loops                     *)
(***************************************************************************)

\* C19: an automatic reset that has completed was of a guild whose
\* auto_reset row then showed at least `days` whole days since last_reset,
\* it has set last_reset to the current time, and the guild's previous
\* completed automatic reset is at least `days` days back
C19_AutoResetTiming ==
    last.op = "auto_reset" =>
        /\ last.before # Null
        /\ whole_days(last.at - last.before[1].last_reset) >= last.before[1].days
        /\ db.auto_reset[last.guild_id] # Null
        /\ db.auto_reset[last.guild_id][1].last_reset = last.at
        /\ last.previous # Null =>
              whole_days(last.at - last.previous[1]) >= last.before[1].days

\* C20: when the reset of one guild raises in the auto-reset check, the rows
\* of the cycle that come after it are still to be processed
C20_FailureIsolation ==
    last.op = "auto_reset_raised" => manager.configs = last.remaining

\* C21: the first iteration of every loop runs at a multiple of the loop's
\* period, after a wait of period - (now mod period) seconds counted from
\* the one reading of the clock in its hook, which is in (0, period]
C21_BoundaryAlignment ==
    \A loop \in Loops :
        manager[loop].first # Null =>
            LET asked == manager[loop].asked[1]
                waited == manager[loop].first[1] - asked
            IN  /\ manager[loop].first[1] % Period(loop) = 0
                /\ waited = Period(loop) - (asked % Period(loop))
                /\ waited > 0 /\ waited <= Period(loop)

(***************************************************************************)
(*                  Properties of the reminder commands                    *)
(***************************************************************************)

\* The /r3-edit that has just run was given a time or an interval that
\* fails its validation
InvalidEdit ==
    /\ last.op = "r3-edit"
    /\ \/ last.time # Null /\ parse_time(last.time[1], now) = Null
       \/ last.interval # Null /\ ~validate_interval(last.interval[1])

\* The same of the /r1-create that has just run
InvalidCreate ==
    /\ last.op = "r1-create"
    /\ \/ parse_time(last.time, now) = Null
       \/ ~validate_interval(last.interval)

\* C22: a create or edit command given a time that does not parse or an
\* interval that does not validate is rejected and leaves the reminders as
\* they were, whatever else it was given
C22_NoPartialState ==
    /\ InvalidEdit => (last.rejected /\ db.reminders = last.before)
    /\ InvalidCreate => (last.rejected # "no" /\ db.reminders = last.before)

(***************************************************************************)
(*                      Properties of the dashboard                        *)
(***************************************************************************)

\* What is stored for the guild: its restrictions, its tables and the roles
\* its members hold
StoredOfGuild == <<restrictions, db, guild.roles>>

\* C23: a step that changes what is stored for the guild is the request of
\* a session whose user is recorded in dashboard_user_servers for the
\* guild, whatever the access lookup itself ran into
C23_DashboardAuthorization ==
    [][StoredOfGuild' # StoredOfGuild =>
          manager.current_user[1] \in db.dashboard_user_servers]_vars

(***************************************************************************)
(*                      Properties of the classifier                       *)
(***************************************************************************)

\* The tokens of the classified message
ClassifiedTokens ==
    {last.message.content[i] : i \in 1 .. Len(last.message.content)}

\* C24: a message with an image URL anywhere in its text has the ImageLink
\* bit in its mask, and when its only URLs are image URLs it does not have
\* the RegularLink bit
C24_ImageLink ==
    last.op = "classify" =>
        /\ "image_url" \in ClassifiedTokens => HasBit(last.detected, IMAGE_LINKS)
        /\ (ClassifiedTokens \cap {"url", "invite"} = {}) =>
               ~HasBit(last.detected, REGULAR_LINKS)

(***************************************************************************)
(*                    Properties of the settings cache                     *)
(***************************************************************************)

\* A message has just earned XP
MessageAccrual == last.op = "xp" /\ last.kind = "message" /\ last.awarded

\* The accrual's gain is the amount `settings` gives for a message or for a
\* message with an image
GainOf(settings) == last.gain \in {settings.xp_per_message, settings.xp_per_image}

\* The settings row was saved by the dashboard `age` seconds ago or earlier
SavedFor(age) ==
    /\ db.guild_settings # Null
    /\ "updated_at" \in DOMAIN db.guild_settings[1]
    /\ now - db.guild_settings[1].updated_at >= age

\* C25: the settings an accrual works with are those of a cache entry less
\* than 300 seconds old, an older entry having been replaced by the stored
\* row; so an accrual 300 seconds or more after the dashboard saved the row
\* works with the saved amounts
C25_SettingsCacheTTL ==
    MessageAccrual =>
        /\ manager.settings_cache # Null
        /\ now - manager.settings_cache[1].timestamp < SETTINGS_CACHE_DURATION
        /\ GainOf(manager.settings_cache[1].settings)
        /\ SavedFor(300) => GainOf(db.guild_settings[1])

\* C25 witness: a member earned 5 XP under the cached defaults, the
\* dashboard saved 7 XP for a message while that entry was in the cache, and
\* 300 seconds after the save the member's next message earns 7
C25_Witness ==
    /\ MessageAccrual
    /\ SavedFor(300)
    /\ last.gain = 7
    /\ db.users[last.member] = Val([NewUser EXCEPT !.xp = 12])
    /\ manager.settings_cache[1].timestamp = now

(***************************************************************************)
(*                   Properties of the connection pool                     *)
(***************************************************************************)

\* C26: between requests no connection is checked out of the pool, whatever
\* the requests before ran into
C26_ConnectionDiscipline ==
    db.checked_out = 0

(***************************************************************************)
(*                   Properties of the redirect notice                     *)
(***************************************************************************)

\* A notice was posted for h only after its message was deleted in a channel
\* with a redirect channel
NoticeOnlyAfterDelete ==
    \A h \in NoticeHandlers :
        guild[h].notice # "none" =>
            guild[h].delete = "deleted" /\ guild[h].redirect # None

\* A refused message.delete() is logged, posts no notice and is the one
\* delete call made for the message
ForbiddenLoggedOnce ==
    \A h \in NoticeHandlers :
        guild[h].delete = "Forbidden" =>
            guild[h].logged /\ guild[h].notice = "none" /\ guild[h].deletes = 1

\* The handler's delete of its notice is made once its 15 seconds are over
\* and not before
RemovalOnTime ==
    \A h \in NoticeHandlers :
        guild[h].attempt # Null =>
            guild[h].attempt[1].at = manager.tasks[h].posted_at[1] + NOTICE_SECONDS

\* C27: a notice is posted only after the blocked message was deleted and a
\* redirect channel is configured, every posted notice is out of the channel
\* in the end, removed by the handler 15 seconds after it was posted unless
\* someone removed it before, and a message.delete() refused for permissions
\* is logged, posts no notice and is not repeated
C27_RedirectNotice ==
    /\ [](NoticeOnlyAfterDelete /\ ForbiddenLoggedOnce /\ RemovalOnTime)
    /\ \A h \in NoticeHandlers :
         guild[h].notice = "posted" ~> guild[h].notice \in {"removed", "gone"}

\* C27 as the code has it: every posted notice has its removal attempted by
\* the handler, once and 15 seconds after posting, and the notice is then
\* out of the channel unless Discord refused that delete, which the handler
\* passes over in silence
C27_RedirectNoticeAttempted ==
    /\ [](NoticeOnlyAfterDelete /\ ForbiddenLoggedOnce /\ RemovalOnTime)
    /\ \A h \in NoticeHandlers :
         guild[h].notice = "posted" ~>
            /\ manager.tasks[h].pc = "done"
            /\ guild[h].attempt # Null
            /\ \/ guild[h].notice \in {"removed", "gone"}
               \/ guild[h].attempt[1].answer = "Forbidden"

\* C27 witness: a notice posted after the clock started was removed by its
\* handler 15 seconds later
C27_Witness ==
    \E h \in NoticeHandlers :
        /\ guild[h].notice = "removed"
        /\ manager.tasks[h].posted_at # Null
        /\ manager.tasks[h].posted_at[1] > 0
        /\ guild[h].attempt =
              Val([at |-> manager.tasks[h].posted_at[1] + NOTICE_SECONDS, answer |-> "ok"])

(***************************************************************************)
(*                 Properties of interleaved accruals                      *)
(***************************************************************************)

\* Both handlers are over and no reset has run
AccrualsOver ==
    /\ \A h \in Accruals : manager.tasks[h].pc = "done"
    /\ guild.resets = 0

\* The gains of the handlers
GainSum == manager.tasks["a1"].gain + manager.tasks["a2"].gain

\* C28: when two accruals of a member are over, however their steps were
\* interleaved, the stored xp and the cached xp are the xp the member
\* started with plus both gains
C28_NoLostUpdate ==
    AccrualsOver =>
        \A m \in Members :
            /\ db.users[m][1].xp = guild.start_xp + GainSum
            /\ manager.user_cache[m] # Null =>
                   manager.user_cache[m][1].xp = guild.start_xp + GainSum

\* C29: the xp an accrual's UPDATE stores is the xp in the datastore at that
\* moment plus the gain, so the first one after a reset stores the gain alone
C29_ResetDurability ==
    last.op = "stored" /\ last.before # Null =>
        last.stored = last.before[1].xp + last.gain

\* C30: since the latest reset no level has had more than one announcement
\* or more than one role reconciliation, and a level-up whose level does not
\* exceed the persisted last notified level is skipped
C30_LevelUpIdempotency ==
    /\ \A l \in AccrualLevels : guild.announced[l] <= 1 /\ guild.reconciled[l] <= 1
    /\ last.op = "level_up_fetch" => (last.skipped <=> last.new_level <= last.last_notified)
    /\ last.op = "level_up" => last.new_level > last.last_notified

\* No accrual and no reset is between two of its steps
NothingInFlight ==
    /\ \A h \in Accruals : manager.tasks[h].pc \in {"new", "done"}
    /\ manager.reset_pc = "idle"

\* C31: when nothing is in flight the persisted last notified level of a
\* member is at most the member's stored level, also after a reset that ran
\* between the steps of a level-up handler
C31_LastNotifiedBounded ==
    NothingInFlight =>
        \A m \in Members :
            db.users[m] # Null =>
                OrZero(db.last_notified_level[m]) <= db.users[m][1].level

(***************************************************************************)
(*                    Properties of voice sessions                         *)
(***************************************************************************)

\* The step is the handling of a voice-state event of member m
VoiceEventOf(m) ==
    /\ last = NoEvent
    /\ last'.op = "xp" /\ last'.kind = "voice" /\ last'.member = m
    /\ last'.why # "bot"

\* What the handling of a voice-state event of m does to m's session and
\* rows, by the kind of transition
VoiceTransition(m) ==
    LET session == manager.voice_sessions[m]
        before == is_active(guild.voice[m])
        after == is_active(guild'.voice[m])
    IN  /\ ~before /\ after => manager'.voice_sessions[m] = Val(now)
        /\ before /\ ~after =>
              /\ manager'.voice_sessions[m] = Null
              /\ session = Null => ~last'.awarded /\ db'.users = db.users
              /\ last'.awarded =>
                    /\ session # Null /\ last'.gain > 0
                    /\ db'.users[m] # Null =>
                          db'.users[m][1].xp = last'.before.xp + last'.gain
              /\ ~last'.awarded /\ db.users[m] # Null => db'.users[m] = db.users[m]
        /\ before = after =>
              /\ manager'.voice_sessions[m] = session
              /\ db'.users = db.users
              /\ ~last'.awarded

\* C32: a member's session entry exists only while the member is active and
\* is the time of the latest inactive-to-active event; an active-to-inactive
\* event removes it and turns it into XP once, or into nothing when there
\* was no entry; events that keep the member active or inactive change
\* neither the sessions nor the XP; nothing but a voice event touches the
\* sessions
C32_VoiceSessions ==
    /\ [](\A m \in Members :
            manager.voice_sessions[m] # Null => is_active(guild.voice[m]))
    /\ [][\A m \in Members :
            /\ VoiceEventOf(m) => VoiceTransition(m)
            /\ ~(\E n \in Members : VoiceEventOf(n)) =>
                  manager'.voice_sessions = manager.voice_sessions]_vars

\* C32 witness: a member who left voice with a session has no session any
\* more and was given XP for it
C32_Witness ==
    /\ last.op = "xp" /\ last.kind = "voice" /\ last.awarded /\ last.gain > 0
    /\ \A m \in Members :
         manager.voice_sessions[m] = Null /\ ~is_active(guild.voice[m])

(***************************************************************************)
(*                Properties of a refused role change                      *)
(***************************************************************************)

\* The accrual that has just run handled a level-up in which Discord
\* refused add_roles or remove_roles
RolesRefused ==
    last.op = "xp" /\ last.awarded /\ last.handled /\ last.forbidden

C34_DeletedIsTerminal ==
    /\ [][\A id \in ReminderIds :
            db.reminders[id].status = "deleted" =>
                db'.reminders[id].status = "deleted"]_vars
    /\ [](ReminderSent => last.status # "deleted")

\* C35: the firing of a recurring reminder whose interval passes the
\* validation stores a next_run later than the one it had, so the next
\* cycle does not find it due again at the same due time
C35_NextRunAdvances ==
    ReminderFired /\ validate_interval(last.before.interval)
                  /\ last.before.interval # Once =>
        db.reminders[last.reminder_id].next_run > last.before.next_run

\* C36: a due reminder that could not be sent keeps its row as it was and
\* is still due, and a row's run_count is raised by one exactly by a firing
\* that sent the message, and never otherwise
C36_RunCountCountsSends ==
    /\ [][\A id \in ReminderIds :
            db'.reminders[id].run_count # db.reminders[id].run_count =>
                /\ manager.pc = "sent" /\ Head(manager.due).reminder_id = id
                /\ db'.reminders[id].run_count = db.reminders[id].run_count + 1]_vars
    /\ [][manager.pc = "loop" /\ manager'.pc = "loop" /\ manager.due # <<>>
            /\ manager'.due = Tail(manager.due) => db' = db]_vars
    /\ [][manager.pc = "sent" /\ manager'.pc = "loop" =>
            db'.reminders[Head(manager.due).reminder_id].run_count =
                db.reminders[Head(manager.due).reminder_id].run_count + 1]_vars


(***************************************************************************)
(*                  Properties of the seeding of a setup                   *)
(***************************************************************************)

\* C37: no item that was in the feed when a guild's config was first set up
\* ever causes a notification for that guild, however the setup and a
\* running poll cycle interleave
C37_SeededNeverNotified ==
    \A g \in YtGuilds : \A v \in guild.present[g] : guild.sent[g][v] = 0


(***************************************************************************)
(*                    Properties of the notified status                    *)
(***************************************************************************)

\* C38: a log row with status notified exists for a (guild, channel, video)
\* only if a notification for that video was delivered to the guild; a
\* video whose send failed is not recorded as notified
C38_NotifiedMeansDelivered ==
    \A g \in YtGuilds, v \in Videos :
        db.youtube_notification_logs[g][v] = Val("notified") =>
            guild.sent[g][v] >= 1

\* C38 (amended): a row with status notified is written only by a poll cycle
\* that tried to send the video's notification (the video was unlogged and
\* at most 60 minutes old), and it is written whether or not the message
\* was delivered: a video whose target is missing or whose send failed is
\* recorded as notified all the same
C38_NotifiedMeansAttempted ==
    /\ [][\A g \in YtGuilds, v \in Videos :
            /\ db'.youtube_notification_logs[g][v] = Val("notified")
            /\ db.youtube_notification_logs[g][v] # Val("notified")
            => /\ last'.op = "poll"
               /\ \E item \in last'.seen :
                    /\ item.guild_id = g /\ item.video_id = v
                    /\ ~item.logged /\ item.age <= 3600
                    /\ item.outcome = "notified"]_vars
    /\ [](\A item \in Processed :
            item.outcome = "notified" => LogOf(item) = Val("notified"))

\* A cycle recorded a video as notified whose message Discord never took
C38_Witness ==
    \E item \in Processed :
        /\ item.outcome = "notified" /\ ~item.delivered
        /\ LogOf(item) = Val("notified")
        /\ guild.sent[item.guild_id][item.video_id] = 0


(***************************************************************************)
(*                  Properties of concurrent creates                       *)
(***************************************************************************)

\* C39: a channel never has more than one restriction row, whatever creates
\* run and however they interleave, and a create for a channel that has a
\* row leaves that row as it is
C39_OneRowPerChannel ==
    /\ [](\A c \in Channels : Cardinality(RowsOf(c)) <= 1)
    /\ [][\A c \in Channels : RowsOf(c) # {} => RowsOf(c)' = RowsOf(c)]_vars


(***************************************************************************)
(*                    Properties of the loops' liveness                    *)
(***************************************************************************)

\* C40: each periodic loop keeps running: after an iteration in which a
\* datastore call or an external call failed with an exception, a later
\* iteration of the same loop occurs
C40_LoopLiveness ==
    \A loop \in Loops : \A p \in {0, 1} :
        (manager.loops[loop].failed /\ manager.loops[loop].parity = p)
            ~> (manager.loops[loop].parity # p)

=============================================================================
